---- MODULE Spec2Model ----
(***************************************************************************)
(* PHANTOM: the Portfolio Ledger / Strategy Registry (PhantomVault), the   *)
(* Delegated Execution Agent (PhantomAccount) and the Fee Sponsor          *)
(* (PhantomPaymaster) as state machines.                                   *)
(* Time is counted in hours.  keccak256(abi.encode(..)) is modelled as an  *)
(* injective tuple constructor; an ECDSA signature as the pair (signer,    *)
(* signed message), so that recovery over another message yields an        *)
(* unrelated address.                                                      *)
(***************************************************************************)
EXTENDS Integers, Sequences, FiniteSets, TLC

\* ---------------------------------------------------------------- bounds
StartTime == 100          \* block.timestamp at deployment (hours)
MaxElapsed == 1           \* hours the clock may advance
MaxExecutions == 2        \* cap of totalStrategiesExecuted
MaxStrategies == 2        \* cap of the number of strategy records written
MaxPortfolios == 2        \* cap of totalPortfolios
MaxHistory == 2           \* cap of the length of one owner's risk history
MaxKeyPushes == 2         \* cap of the length of activeSessionKeys
MaxWarp == 25             \* hours the fee sponsor's clock may advance
MaxSponsored == 3         \* cap of one sender's sponsoredTxCount
MaxAccounts == 3          \* cap of totalAccounts
MaxStray == 1             \* cap of the tokens sent to the ledger by mistake

\* ------------------------------------------------------ program constants
MaxThreshold == 5000      \* createPortfolio: rebalanceThreshold > 5000 reverts
MaxValidity == 24         \* submitStrategy: validityPeriod > 24 hours reverts
DefaultInterval == 1      \* minRebalanceInterval = 1 hours
Day == 24                 \* _checkAndUpdateDailyLimit: 1 days
DefaultMaxDaily == 10     \* maxDailySponsored = 10
DefaultFeeBps == 10       \* executionFeeBps = 10
MaxFeeBps == 100          \* setFees: _feeBps <= 100

\* -------------------------------------------------------------- addresses
ZeroAddr == "0x0"
Admin == "admin"
Users == {"alice", "bob"}
TEE == "tee"              \* the attester key the ledger is deployed with
Mallory == "mallory"      \* a key that is not the attester's
Garbage == "0xrandom"     \* what ecrecover yields for a signature over another message

ZeroData == "0x00"
ZeroHash == <<>>

\* ------------------------------------------------------------- signatures
NoMsg == [tag |-> "none", user |-> ZeroAddr, body |-> <<>>]
\* 65 bytes that are signer's signature over msg
Sig(signer, msg) == [kind |-> "sig", signer |-> signer, msg |-> msg]
\* a blob longer than 65 bytes
LongSig == [kind |-> "long", signer |-> ZeroAddr, msg |-> NoMsg]
\* a blob shorter than 65 bytes (the empty bytes "" of the tests)
EmptySig == [kind |-> "short", signer |-> ZeroAddr, msg |-> NoMsg]
\* 65 bytes for which ecrecover fails and returns address(0)
BadSig == [kind |-> "bad", signer |-> ZeroAddr, msg |-> NoMsg]

\* keccak256(abi.encode(user, strategy.strategyHash, strategy.targetAssets))
StrategyMsg(user, strategy) ==
    [tag |-> "strategy", user |-> user,
     body |-> <<strategy.strategyHash, strategy.targetAssets>>]

\* _recoverSigner: "revert" stands for require(signature.length == 65)
_recoverSigner(messageHash, signature) ==
    CASE signature.kind \in {"short", "long"} -> "revert"
      [] signature.kind = "bad" -> ZeroAddr
      [] OTHER -> IF signature.msg = messageHash THEN signature.signer ELSE Garbage

\* ------------------------------------------------------------------ state
VARIABLES
    now,                       \* block.timestamp
    paused,                    \* Pausable._paused
    trustedIApp,
    minRebalanceInterval,
    portfolios,                \* mapping(address => Portfolio)
    strategies,                \* mapping(bytes32 => Strategy), the keys written so far
    totalPortfolios,
    riskHistory,               \* mapping(address => RiskReport[])
    totalStrategiesExecuted,
    rebalanced,                \* calls of _executeRebalance, per strategy hash
    last,                      \* the last ledger call and its outcome
    owner,                     \* PhantomAccount.owner
    sessionKeys,               \* mapping(address => SessionKey)
    activeSessionKeys,         \* address[]
    accLast,                   \* the last call of the agent and its outcome
    verifyingSigner,           \* PhantomPaymaster.verifyingSigner
    phantomVault,              \* PhantomPaymaster.phantomVault
    sponsoredTxCount,          \* mapping(address => uint256)
    maxDailySponsored,
    dailyResetTime,            \* mapping(address => uint256)
    whitelistedSelectors,      \* the selectors mapped to true
    pmLast,                    \* the last call of the fee sponsor and its outcome
    sponsoredAt,               \* ghost: per sender, the times of the operations accepted
                               \* since the cap last changed
    initialized,               \* Initializable: has the agent's initializer run
    accounts,                  \* the agents the factory deployed, by address
    ownerToAccount,            \* PhantomAccountFactory.ownerToAccount
    totalAccounts,
    facLast,                   \* the last call of the factory and its outcome
    trustedWorkerpool,
    executionFeeBps,
    feeRecipient,
    strayTokens,               \* a token's balance held by the ledger
    guardStatus,               \* ReentrancyGuard._status of the ledger
    running                    \* the ledger call that is inside _executeRebalance

vaultVars == <<now, paused, trustedIApp, minRebalanceInterval, portfolios, strategies,
               riskHistory, totalPortfolios, totalStrategiesExecuted, rebalanced, last>>

accountVars == <<owner, sessionKeys, activeSessionKeys, accLast, initialized>>

paymasterVars == <<verifyingSigner, phantomVault, sponsoredTxCount, maxDailySponsored,
                   dailyResetTime, whitelistedSelectors, pmLast, sponsoredAt>>

factoryVars == <<accounts, ownerToAccount, totalAccounts, facLast>>

adminVars == <<trustedWorkerpool, executionFeeBps, feeRecipient, strayTokens>>

guardVars == <<guardStatus, running>>

vars == <<vaultVars, accountVars, paymasterVars, factoryVars, adminVars, guardVars>>

EmptyPortfolio ==
    [owner |-> ZeroAddr, protectedDataId |-> ZeroData, lastAnalysis |-> 0,
     riskScore |-> 0, autoRebalance |-> FALSE, rebalanceThreshold |-> 0,
     createdAt |-> 0]

EmptyStrategy ==
    [strategyHash |-> ZeroHash, targetAssets |-> <<>>, allocations |-> <<>>,
     teeSignature |-> EmptySig, validUntil |-> 0, executed |-> FALSE]

\* strategies[h] of the Solidity mapping: the zero record for a key never written
Strat(h) == IF h \in DOMAIN strategies THEN strategies[h] ELSE EmptyStrategy

\* mapping write strategies[h] = s
Store(h, s) == [k \in DOMAIN strategies \cup {h} |-> IF k = h THEN s ELSE strategies[k]]

Rebalanced(h) == IF h \in DOMAIN rebalanced THEN rebalanced[h] ELSE 0

\* _executeRebalance(strategy): the placeholder moves no funds; the call is logged
_executeRebalance(h) ==
    rebalanced' = [k \in DOMAIN rebalanced \cup {h} |-> Rebalanced(k) + IF k = h THEN 1 ELSE 0]

Call(op, h, err) == [op |-> op, h |-> h, err |-> err]

VaultInit ==
    /\ now = StartTime
    /\ paused = FALSE
    /\ trustedIApp = TEE
    /\ minRebalanceInterval = DefaultInterval
    /\ portfolios = [u \in Users |-> EmptyPortfolio]
    /\ strategies = <<>>
    /\ riskHistory = [u \in Users |-> <<>>]
    /\ totalPortfolios = 0
    /\ totalStrategiesExecuted = 0
    /\ rebalanced = <<>>
    /\ last = Call("constructor", ZeroHash, "ok")

\* msg.sender and the arguments of a portfolio call, kept with its outcome
PortfolioCall(op, err, sender, protectedDataId, autoRebalance, rebalanceThreshold) ==
    Call(op, ZeroHash, err) @@
    [sender |-> sender, protectedDataId |-> protectedDataId,
     autoRebalance |-> autoRebalance, rebalanceThreshold |-> rebalanceThreshold]

\* ---------------------------------------------------------------- ledger
\* the threshold 5000 itself refused
createPortfolioErr_below5000(protectedDataId, rebalanceThreshold) ==
    CASE paused -> "EnforcedPause"
      [] protectedDataId = ZeroData -> "InvalidParameters"
      [] rebalanceThreshold >= MaxThreshold -> "InvalidParameters"
      [] OTHER -> "ok"

createPortfolioErr(protectedDataId, rebalanceThreshold) ==
    CASE paused -> "EnforcedPause"
      [] protectedDataId = ZeroData -> "InvalidParameters"
      [] rebalanceThreshold > MaxThreshold -> "InvalidParameters"
      [] OTHER -> "ok"

createPortfolio(sender, protectedDataId, autoRebalance, rebalanceThreshold) ==
    LET err == createPortfolioErr(protectedDataId, rebalanceThreshold) IN
    /\ totalPortfolios < MaxPortfolios
    /\ IF err = "ok"
       THEN /\ portfolios' = [portfolios EXCEPT ![sender] =
                   [owner |-> sender, protectedDataId |-> protectedDataId,
                    lastAnalysis |-> 0, riskScore |-> 0,
                    autoRebalance |-> autoRebalance,
                    rebalanceThreshold |-> rebalanceThreshold,
                    createdAt |-> now]]
            /\ totalPortfolios' = totalPortfolios + 1
       ELSE UNCHANGED <<portfolios, totalPortfolios>>
    /\ last' = PortfolioCall("createPortfolio", err, sender, protectedDataId,
                             autoRebalance, rebalanceThreshold)
    /\ UNCHANGED <<now, paused, trustedIApp, minRebalanceInterval, strategies,
                   riskHistory, totalStrategiesExecuted, rebalanced>>

\* keccak256(abi.encode(msg.sender, targetAssets, allocations, block.timestamp))
Fingerprint(sender, targetAssets, allocations, time) ==
    <<sender, targetAssets, allocations, time>>

\* a validity period of exactly 24 hours refused
submitStrategyErr_below24h(sender, targetAssets, allocations, validityPeriod) ==
    CASE paused -> "EnforcedPause"
      [] Len(targetAssets) # Len(allocations) -> "InvalidParameters"
      [] validityPeriod >= MaxValidity -> "InvalidParameters"
      [] portfolios[sender].owner = ZeroAddr -> "PortfolioNotFound"
      [] OTHER -> "ok"

submitStrategyErr(sender, targetAssets, allocations, validityPeriod) ==
    CASE paused -> "EnforcedPause"
      [] Len(targetAssets) # Len(allocations) -> "InvalidParameters"
      [] validityPeriod > MaxValidity -> "InvalidParameters"
      [] portfolios[sender].owner = ZeroAddr -> "PortfolioNotFound"
      [] OTHER -> "ok"

submitStrategy(sender, targetAssets, allocations, teeSignature, validityPeriod) ==
    LET err == submitStrategyErr(sender, targetAssets, allocations, validityPeriod)
        strategyHash == Fingerprint(sender, targetAssets, allocations, now)
    IN
    /\ strategyHash \in DOMAIN strategies \/ Cardinality(DOMAIN strategies) < MaxStrategies
    /\ IF err = "ok"
       THEN strategies' = Store(strategyHash,
                [strategyHash |-> strategyHash, targetAssets |-> targetAssets,
                 allocations |-> allocations, teeSignature |-> teeSignature,
                 validUntil |-> now + validityPeriod, executed |-> FALSE])
       ELSE UNCHANGED strategies
    /\ last' = Call("submitStrategy", IF err = "ok" THEN strategyHash ELSE ZeroHash, err) @@
                [sender |-> sender, targetAssets |-> targetAssets,
                 allocations |-> allocations, validityPeriod |-> validityPeriod]
    /\ UNCHANGED <<now, paused, trustedIApp, minRebalanceInterval, portfolios,
                   riskHistory, totalPortfolios, totalStrategiesExecuted, rebalanced>>

\* the deadline checked before the executed flag
\* executeStrategy without whenNotPaused
executeStrategyErr_ignoresPause(strategyHash) ==
    CASE Strat(strategyHash).strategyHash = ZeroHash -> "InvalidParameters"
      [] Strat(strategyHash).executed -> "StrategyAlreadyExecuted"
      [] now > Strat(strategyHash).validUntil -> "StrategyExpired"
      [] OTHER -> "ok"

executeStrategyErr_expiryFirst(strategyHash) ==
    CASE paused -> "EnforcedPause"
      [] Strat(strategyHash).strategyHash = ZeroHash -> "InvalidParameters"
      [] now > Strat(strategyHash).validUntil -> "StrategyExpired"
      [] Strat(strategyHash).executed -> "StrategyAlreadyExecuted"
      [] OTHER -> "ok"

executeStrategyErr(strategyHash) ==
    CASE paused -> "EnforcedPause"
      [] Strat(strategyHash).strategyHash = ZeroHash -> "InvalidParameters"
      [] Strat(strategyHash).executed -> "StrategyAlreadyExecuted"
      [] now > Strat(strategyHash).validUntil -> "StrategyExpired"
      [] OTHER -> "ok"

\* every record with the same assets and allocations marked along with this one
executeStrategy_marksTwins(sender, strategyHash) ==
    LET err == executeStrategyErr(strategyHash) IN
    /\ totalStrategiesExecuted < MaxExecutions
    /\ IF err = "ok"
       THEN /\ strategies' =
                  [k \in DOMAIN strategies |->
                      IF /\ strategies[k].targetAssets = strategies[strategyHash].targetAssets
                         /\ strategies[k].allocations = strategies[strategyHash].allocations
                      THEN [strategies[k] EXCEPT !.executed = TRUE]
                      ELSE strategies[k]]
            /\ totalStrategiesExecuted' = totalStrategiesExecuted + 1
            /\ _executeRebalance(strategyHash)
       ELSE UNCHANGED <<strategies, totalStrategiesExecuted, rebalanced>>
    /\ last' = Call("executeStrategy", strategyHash, err) @@ [sender |-> sender]
    /\ UNCHANGED <<now, paused, trustedIApp, minRebalanceInterval, portfolios,
                   riskHistory, totalPortfolios>>

\* execution reserved to the owner the fingerprint was computed for
executeStrategy_onlySubmitter(sender, strategyHash) ==
    LET err == IF executeStrategyErr(strategyHash) = "ok" /\ sender # strategyHash[1]
               THEN "UnauthorizedCaller" ELSE executeStrategyErr(strategyHash)
    IN
    /\ totalStrategiesExecuted < MaxExecutions
    /\ IF err = "ok"
       THEN /\ strategies' = [strategies EXCEPT ![strategyHash].executed = TRUE]
            /\ totalStrategiesExecuted' = totalStrategiesExecuted + 1
            /\ _executeRebalance(strategyHash)
       ELSE UNCHANGED <<strategies, totalStrategiesExecuted, rebalanced>>
    /\ last' = Call("executeStrategy", strategyHash, err) @@ [sender |-> sender]
    /\ UNCHANGED <<now, paused, trustedIApp, minRebalanceInterval, portfolios,
                   riskHistory, totalPortfolios>>

executeStrategy(sender, strategyHash) ==
    LET err == executeStrategyErr(strategyHash) IN
    /\ totalStrategiesExecuted < MaxExecutions
    /\ IF err = "ok"
       THEN /\ strategies' = [strategies EXCEPT ![strategyHash].executed = TRUE]
            /\ totalStrategiesExecuted' = totalStrategiesExecuted + 1
            /\ _executeRebalance(strategyHash)
       ELSE UNCHANGED <<strategies, totalStrategiesExecuted, rebalanced>>
    /\ last' = Call("executeStrategy", strategyHash, err) @@ [sender |-> sender]
    /\ UNCHANGED <<now, paused, trustedIApp, minRebalanceInterval, portfolios,
                   riskHistory, totalPortfolios>>

_verifyStrategySignature(user, strategy, signature) ==
    _recoverSigner(StrategyMsg(user, strategy), signature) = trustedIApp

triggerAutoRebalanceErr(user, deviation, strategy, teeSignature) ==
    CASE paused -> "EnforcedPause"
      [] ~portfolios[user].autoRebalance -> "UnauthorizedCaller"
      [] deviation < portfolios[user].rebalanceThreshold -> "InvalidParameters"
      [] now < portfolios[user].lastAnalysis + minRebalanceInterval -> "RebalanceTooFrequent"
      [] _recoverSigner(StrategyMsg(user, strategy), teeSignature) = "revert" -> "Invalid signature length"
      [] ~_verifyStrategySignature(user, strategy, teeSignature) -> "InvalidTEESignature"
      [] OTHER -> "ok"

triggerAutoRebalance(sender, user, deviation, strategy, teeSignature) ==
    LET err == triggerAutoRebalanceErr(user, deviation, strategy, teeSignature)
        strategyHash == strategy.strategyHash
    IN
    /\ totalStrategiesExecuted < MaxExecutions
    /\ strategyHash \in DOMAIN strategies \/ Cardinality(DOMAIN strategies) < MaxStrategies
    /\ IF err = "ok"
       THEN /\ strategies' = Store(strategyHash, [strategy EXCEPT !.executed = TRUE])
            /\ totalStrategiesExecuted' = totalStrategiesExecuted + 1
            /\ _executeRebalance(strategyHash)
       ELSE UNCHANGED <<strategies, totalStrategiesExecuted, rebalanced>>
    /\ last' = Call("triggerAutoRebalance", strategyHash, err) @@
                [user |-> user, deviation |-> deviation, strategy |-> strategy,
                 teeSignature |-> teeSignature]
    /\ UNCHANGED <<now, paused, trustedIApp, minRebalanceInterval, portfolios,
                   riskHistory, totalPortfolios>>

\* the deadline itself counted as expired
isStrategyValid_strict(strategyHash) ==
    /\ Strat(strategyHash).strategyHash # ZeroHash
    /\ ~Strat(strategyHash).executed
    /\ now < Strat(strategyHash).validUntil

isStrategyValid(strategyHash) ==
    /\ Strat(strategyHash).strategyHash # ZeroHash
    /\ ~Strat(strategyHash).executed
    /\ now <= Strat(strategyHash).validUntil

\* vm.warp / the chain's clock
Tick ==
    /\ now < StartTime + MaxElapsed
    /\ now' = now + 1
    /\ last' = Call("tick", ZeroHash, "ok")
    /\ UNCHANGED <<paused, trustedIApp, minRebalanceInterval, portfolios, strategies,
                   riskHistory, totalPortfolios, totalStrategiesExecuted, rebalanced>>

updatePortfolioErr(sender) ==
    CASE paused -> "EnforcedPause"
      [] portfolios[sender].owner = ZeroAddr -> "PortfolioNotFound"
      [] OTHER -> "ok"

\* the data reference written whatever its value
updatePortfolio_writesZeroId(sender, newProtectedDataId, autoRebalance, rebalanceThreshold) ==
    LET err == updatePortfolioErr(sender) IN
    /\ IF err = "ok"
       THEN portfolios' = [portfolios EXCEPT ![sender] =
                [@ EXCEPT !.protectedDataId = newProtectedDataId,
                          !.autoRebalance = autoRebalance,
                          !.rebalanceThreshold = rebalanceThreshold]]
       ELSE UNCHANGED portfolios
    /\ last' = PortfolioCall("updatePortfolio", err, sender, newProtectedDataId,
                             autoRebalance, rebalanceThreshold)
    /\ UNCHANGED <<now, paused, trustedIApp, minRebalanceInterval, strategies,
                   riskHistory, totalPortfolios, totalStrategiesExecuted, rebalanced>>

updatePortfolio(sender, newProtectedDataId, autoRebalance, rebalanceThreshold) ==
    LET err == updatePortfolioErr(sender) IN
    /\ IF err = "ok"
       THEN portfolios' = [portfolios EXCEPT ![sender] =
                [@ EXCEPT !.protectedDataId =
                              IF newProtectedDataId # ZeroData THEN newProtectedDataId ELSE @,
                          !.autoRebalance = autoRebalance,
                          !.rebalanceThreshold = rebalanceThreshold]]
       ELSE UNCHANGED portfolios
    /\ last' = PortfolioCall("updatePortfolio", err, sender, newProtectedDataId,
                             autoRebalance, rebalanceThreshold)
    /\ UNCHANGED <<now, paused, trustedIApp, minRebalanceInterval, strategies,
                   riskHistory, totalPortfolios, totalStrategiesExecuted, rebalanced>>

\* keccak256(abi.encode(user, report))
ReportMsg(user, report) == [tag |-> "report", user |-> user, body |-> <<report>>]

_verifyTEESignature(user, report, signature) ==
    _recoverSigner(ReportMsg(user, report), signature) = trustedIApp

\* a report already in the owner's history refused
submitRiskAnalysisErr_rejectsReplay(user, report, teeSignature) ==
    CASE paused -> "EnforcedPause"
      [] _recoverSigner(ReportMsg(user, report), teeSignature) = "revert" -> "Invalid signature length"
      [] ~_verifyTEESignature(user, report, teeSignature) -> "InvalidTEESignature"
      [] portfolios[user].owner = ZeroAddr -> "PortfolioNotFound"
      [] \E i \in 1..Len(riskHistory[user]) : riskHistory[user][i] = report ->
            "InvalidParameters"
      [] OTHER -> "ok"

submitRiskAnalysisErr(user, report, teeSignature) ==
    CASE paused -> "EnforcedPause"
      [] _recoverSigner(ReportMsg(user, report), teeSignature) = "revert" -> "Invalid signature length"
      [] ~_verifyTEESignature(user, report, teeSignature) -> "InvalidTEESignature"
      [] portfolios[user].owner = ZeroAddr -> "PortfolioNotFound"
      [] OTHER -> "ok"

submitRiskAnalysis(sender, user, report, teeSignature) ==
    LET err == submitRiskAnalysisErr(user, report, teeSignature) IN
    /\ Len(riskHistory[user]) < MaxHistory
    /\ IF err = "ok"
       THEN /\ portfolios' = [portfolios EXCEPT ![user].lastAnalysis = now,
                                                ![user].riskScore = report.portfolioScore]
            /\ riskHistory' = [riskHistory EXCEPT ![user] = Append(@, report)]
       ELSE UNCHANGED <<portfolios, riskHistory>>
    /\ last' = Call("submitRiskAnalysis", ZeroHash, err) @@
                [sender |-> sender, user |-> user, report |-> report,
                 teeSignature |-> teeSignature]
    /\ UNCHANGED <<now, paused, trustedIApp, minRebalanceInterval, strategies,
                   totalPortfolios, totalStrategiesExecuted, rebalanced>>

\* RiskReport(0, 0, 0, 0, 0, 0, 0, ""), by the fields the model keeps
ZeroReport == [portfolioScore |-> 0, timestamp |-> 0]

\* the oldest entry returned instead of the newest
getLatestRiskReport_oldest(user) ==
    IF Len(riskHistory[user]) = 0 THEN ZeroReport ELSE riskHistory[user][1]

getLatestRiskReport(user) ==
    IF Len(riskHistory[user]) = 0 THEN ZeroReport
    ELSE riskHistory[user][Len(riskHistory[user])]

\* ------------------------------------------------------------ re-entrancy
\* While _executeRebalance runs, the rebalance action it delegates to (a
\* placeholder today) may call the ledger back. The two calls that delegate
\* are followed here up to the delegation, through the calls made back, and
\* to their return; everywhere else they are taken as one step.
NoCall == <<>>

GuardInit ==
    /\ guardStatus = "NOT_ENTERED"
    /\ running = NoCall

\* the guard left out
nonReentrantErr_open == "ok"

\* modifier nonReentrant, which runs before whenNotPaused
nonReentrantErr ==
    IF guardStatus = "ENTERED" THEN "ReentrancyGuardReentrantCall" ELSE "ok"

\* executeStrategy from its entry to the call of _executeRebalance
executeStrategyEnter(sender, strategyHash) ==
    /\ running = NoCall
    /\ nonReentrantErr = "ok"
    /\ executeStrategy(sender, strategyHash)
    /\ IF last'.err = "ok"
       THEN /\ guardStatus' = "ENTERED"
            /\ running' = [op |-> "executeStrategy", h |-> strategyHash]
       ELSE UNCHANGED <<guardStatus, running>>

\* triggerAutoRebalance from its entry to the call of _executeRebalance
triggerAutoRebalanceEnter(sender, user, deviation, strategy, teeSignature) ==
    /\ running = NoCall
    /\ nonReentrantErr = "ok"
    /\ triggerAutoRebalance(sender, user, deviation, strategy, teeSignature)
    /\ IF last'.err = "ok"
       THEN /\ guardStatus' = "ENTERED"
            /\ running' = [op |-> "triggerAutoRebalance", h |-> strategy.strategyHash]
       ELSE UNCHANGED <<guardStatus, running>>

\* a call the guard turns away
Reentered(op, sender, h) ==
    /\ last' = Call(op, h, nonReentrantErr) @@ [sender |-> sender]
    /\ UNCHANGED <<now, paused, trustedIApp, minRebalanceInterval, portfolios, strategies,
                   riskHistory, totalPortfolios, totalStrategiesExecuted, rebalanced>>

\* executeStrategy called by the rebalance action: a nested call, which runs
\* to its end before the outer one goes on
executeStrategyReenter(sender, strategyHash) ==
    /\ running # NoCall
    /\ IF nonReentrantErr # "ok"
       THEN Reentered("executeStrategy", sender, strategyHash)
       ELSE executeStrategy(sender, strategyHash)
    /\ UNCHANGED <<guardStatus, running>>

\* triggerAutoRebalance called by the rebalance action
triggerAutoRebalanceReenter(sender, user, deviation, strategy, teeSignature) ==
    /\ running # NoCall
    /\ IF nonReentrantErr # "ok"
       THEN Reentered("triggerAutoRebalance", sender, strategy.strategyHash)
       ELSE triggerAutoRebalance(sender, user, deviation, strategy, teeSignature)
    /\ UNCHANGED <<guardStatus, running>>

\* _executeRebalance returns, the event is emitted and the guard released
executeRebalanceReturn ==
    /\ running # NoCall
    /\ guardStatus' = "NOT_ENTERED"
    /\ running' = NoCall
    /\ UNCHANGED vaultVars

\* ----------------------------------------------------------------- admin
\* onlyOwner letting everyone through
onlyOwnerErr_anyone(sender) == "ok"

\* Ownable.onlyOwner: the deployer is the administrator
onlyOwnerErr(sender) == IF sender # Admin THEN "OwnableUnauthorizedAccount" ELSE "ok"

AdminCall(op, sender, err) == Call(op, ZeroHash, err) @@ [sender |-> sender]

setTrustedIApp(sender, _trustedIApp) ==
    LET err == onlyOwnerErr(sender) IN
    /\ trustedIApp' = IF err = "ok" THEN _trustedIApp ELSE trustedIApp
    /\ last' = AdminCall("setTrustedIApp", sender, err)
    /\ UNCHANGED <<now, paused, minRebalanceInterval, portfolios, strategies, riskHistory,
                   totalPortfolios, totalStrategiesExecuted, rebalanced>>

setMinRebalanceInterval(sender, _interval) ==
    LET err == onlyOwnerErr(sender) IN
    /\ minRebalanceInterval' = IF err = "ok" THEN _interval ELSE minRebalanceInterval
    /\ last' = AdminCall("setMinRebalanceInterval", sender, err)
    /\ UNCHANGED <<now, paused, trustedIApp, portfolios, strategies, riskHistory,
                   totalPortfolios, totalStrategiesExecuted, rebalanced>>

pauseErr(sender) ==
    CASE sender # Admin -> "OwnableUnauthorizedAccount"
      [] paused -> "EnforcedPause"
      [] OTHER -> "ok"

pause(sender) ==
    LET err == pauseErr(sender) IN
    /\ paused' = IF err = "ok" THEN TRUE ELSE paused
    /\ last' = AdminCall("pause", sender, err)
    /\ UNCHANGED <<now, trustedIApp, minRebalanceInterval, portfolios, strategies,
                   riskHistory, totalPortfolios, totalStrategiesExecuted, rebalanced>>

unpauseErr(sender) ==
    CASE sender # Admin -> "OwnableUnauthorizedAccount"
      [] ~paused -> "ExpectedPause"
      [] OTHER -> "ok"

unpause(sender) ==
    LET err == unpauseErr(sender) IN
    /\ paused' = IF err = "ok" THEN FALSE ELSE paused
    /\ last' = AdminCall("unpause", sender, err)
    /\ UNCHANGED <<now, trustedIApp, minRebalanceInterval, portfolios, strategies,
                   riskHistory, totalPortfolios, totalStrategiesExecuted, rebalanced>>

\* ------------------------------------------------------ execution agent
PhantomVaultAddr == "vault"      \* PhantomAccount.phantomVault (immutable)
Dex == "dex"                     \* some other contract
AccountOwner == "alice"          \* the owner the proxy was initialized with
Bot == "bot"                     \* the holder of a delegated key
KeyAddrs == {Bot, AccountOwner}  \* addresses a key may be registered under
EntryPoint == "entryPoint"       \* PhantomAccount._entryPoint (immutable)
Self == "account"                \* address(this)
Signers == {AccountOwner, Bot, Mallory}

EmptySessionKey ==
    [key |-> ZeroAddr, validUntil |-> 0, spendLimit |-> 0, spent |-> 0,
     allowedTargets |-> <<>>, allowedSelectors |-> <<>>, active |-> FALSE]

\* type(uint256).max
MaxUint == -1

\* the for-loop over an address[] / bytes4[]
InList(list, x) == \E i \in 1..Len(list) : list[i] = x

\* the keys (besides the owner's and the keys in KeyAddrs) all have the zero record
Session(k) == IF k \in DOMAIN sessionKeys THEN sessionKeys[k] ELSE EmptySessionKey

\* an agent as the factory leaves it: a proxy whose initializer has run
AccountInit ==
    /\ owner = AccountOwner
    /\ initialized = "initialized"
    /\ sessionKeys = [k \in KeyAddrs |-> EmptySessionKey]
    /\ activeSessionKeys = <<>>
    /\ accLast = [op |-> "initialize", key |-> AccountOwner, err |-> "ok", userOp |-> <<>>,
                  sender |-> ZeroAddr, arg |-> 0]

\* a call of the agent: msg.sender and the duration given are kept for the key operations
AccCall(op, key, err) ==
    [op |-> op, key |-> key, err |-> err, userOp |-> <<>>, sender |-> ZeroAddr, arg |-> 0]

\* userOp.callData, by its layout:
\*   "short"        fewer than 4 bytes
\*   "executeShort" the selector of execute(address,uint256,bytes), fewer than 36 bytes
\*   "execute"      execute(target, value, data), data starting with selector `inner`
\*   "executeBatch" another selector of the agent: a batch whose call goes to
\*                  `target` with selector `inner`
CallData(outer, target, inner) == [outer |-> outer, target |-> target, inner |-> inner]

\* userOpHash: the operation without its signature
OpHash(callData) == [tag |-> "userOp", user |-> ZeroAddr, body |-> <<callData>>]

\* ECDSA.recover as called on line 129: reverts unless the blob is a
\* well-formed 65-byte signature; "revert" stands for that revert
recover(hash, signature) ==
    CASE signature.kind \in {"short", "long", "bad"} -> "revert"
      [] OTHER -> IF signature.msg = hash THEN signature.signer ELSE Garbage

\* the allowed-target loop left out
_validateSessionKeyOp_anyTarget(session, userOp) ==
    CASE userOp.callData.outer = "short" -> FALSE
      [] userOp.callData.outer = "executeShort" -> FALSE
      [] OTHER -> TRUE

_validateSessionKeyOp(session, userOp) ==
    CASE userOp.callData.outer = "short" -> FALSE
      [] userOp.callData.outer = "executeShort" -> FALSE
      [] userOp.callData.outer = "execute" ->
            InList(session.allowedTargets, userOp.callData.target)
      [] OTHER -> TRUE

\* the active flag not looked at
_validateSignature_ignoresActive(userOp) ==
    LET recovered == recover(OpHash(userOp.callData), userOp.signature)
        session == Session(recovered)
    IN  CASE userOp.signature.kind = "short" -> "SIG_VALIDATION_FAILED"
          [] recovered = "revert" -> "revert"
          [] recovered = owner -> "ok"
          [] now <= session.validUntil ->
                IF _validateSessionKeyOp(session, userOp)
                THEN "ok" ELSE "SIG_VALIDATION_FAILED"
          [] OTHER -> "SIG_VALIDATION_FAILED"

\* "ok" is validationData 0
_validateSignature(userOp) ==
    LET recovered == recover(OpHash(userOp.callData), userOp.signature)
        session == Session(recovered)
    IN  CASE userOp.signature.kind = "short" -> "SIG_VALIDATION_FAILED"
          [] recovered = "revert" -> "revert"
          [] recovered = owner -> "ok"
          [] session.active /\ now <= session.validUntil ->
                IF _validateSessionKeyOp(session, userOp)
                THEN "ok" ELSE "SIG_VALIDATION_FAILED"
          [] OTHER -> "SIG_VALIDATION_FAILED"

\* the initializer free to run again on a proxy
initializeErr_reentrant(state) ==
    IF state = "disabled" THEN "InvalidInitialization" ELSE "ok"

\* modifier initializer: "fresh" is a proxy's storage before initialize ran,
\* "disabled" the implementation after _disableInitializers()
initializeErr(state) ==
    IF state # "fresh" THEN "InvalidInitialization" ELSE "ok"

initialize(sender, _owner) ==
    LET err == initializeErr(initialized) IN
    /\ owner' = IF err = "ok" THEN _owner ELSE owner
    /\ initialized' = IF err = "ok" THEN "initialized" ELSE initialized
    /\ accLast' = [AccCall("initialize", _owner, err) EXCEPT !.sender = sender]
    /\ UNCHANGED <<sessionKeys, activeSessionKeys>>

\* the holder of an active session key let through as well
_requireForExecuteErr_sessionKeys(sender) ==
    IF sender # EntryPoint /\ sender # owner /\ ~Session(sender).active
    THEN "NotFromEntryPoint" ELSE "ok"

\* _requireForExecute: the EntryPoint and the owner may make the agent call out
_requireForExecuteErr(sender) ==
    IF sender # EntryPoint /\ sender # owner THEN "NotFromEntryPoint" ELSE "ok"

\* BaseAccount.execute(target, value, data): the agent calls `target` as
\* itself; a call of its own initialize goes through the initializer guard,
\* whose revert execute passes on; any other call is the target's business
execute(sender, target, func, arg) ==
    LET inner == IF target = Self /\ func = "initialize"
                 THEN initializeErr(initialized) ELSE "ok"
        err == IF _requireForExecuteErr(sender) # "ok"
               THEN _requireForExecuteErr(sender) ELSE inner
        initializes == err = "ok" /\ target = Self /\ func = "initialize"
    IN
    /\ owner' = IF initializes THEN arg ELSE owner
    /\ initialized' = IF initializes THEN "initialized" ELSE initialized
    /\ accLast' = [AccCall("execute", arg, err) EXCEPT !.sender = sender]
    /\ UNCHANGED <<sessionKeys, activeSessionKeys>>

\* BaseAccount.validateUserOp, as far as the signature goes
validateUserOp(userOp) ==
    /\ accLast' = [op |-> "validateUserOp", key |-> ZeroAddr,
                   err |-> _validateSignature(userOp), userOp |-> userOp,
                   sender |-> ZeroAddr, arg |-> 0]
    /\ UNCHANGED <<owner, sessionKeys, activeSessionKeys, initialized>>

\* the modifier left out
NotOwnerErr_anyone(sender) == "ok"

\* modifier onlyOwner
NotOwnerErr(sender) == IF sender # owner THEN "NotOwner" ELSE "ok"

\* checked uint256 addition: a + b exceeds type(uint256).max
Overflows(a, b) == (a = MaxUint /\ b # 0) \/ (b = MaxUint /\ a # 0)

\* the record createPhantomSessionKey writes
PhantomSessionKey(key, duration) ==
    [key |-> key, validUntil |-> now + duration, spendLimit |-> MaxUint,
     spent |-> 0, allowedTargets |-> <<PhantomVaultAddr>>,
     allowedSelectors |-> <<"executeStrategy", "submitStrategy">>,
     active |-> TRUE]

\* "Panic" is the arithmetic panic of block.timestamp + duration
createPhantomSessionKeyErr(sender, duration) ==
    CASE sender # owner -> "NotOwner"
      [] Overflows(now, duration) -> "Panic"
      [] OTHER -> "ok"

createSessionKey(sender, key, validUntil, spendLimit, allowedTargets, allowedSelectors) ==
    LET err == NotOwnerErr(sender) IN
    /\ Len(activeSessionKeys) < MaxKeyPushes
    /\ IF err = "ok"
       THEN /\ sessionKeys' = [sessionKeys EXCEPT ![key] =
                   [key |-> key, validUntil |-> validUntil, spendLimit |-> spendLimit,
                    spent |-> 0, allowedTargets |-> allowedTargets,
                    allowedSelectors |-> allowedSelectors, active |-> TRUE]]
            /\ activeSessionKeys' = Append(activeSessionKeys, key)
       ELSE UNCHANGED <<sessionKeys, activeSessionKeys>>
    /\ accLast' = [AccCall("createSessionKey", key, err) EXCEPT !.sender = sender]
    /\ UNCHANGED <<owner, initialized>>

\* the earlier record's target list kept
createPhantomSessionKey_keepsTargets(sender, key, duration) ==
    LET err == createPhantomSessionKeyErr(sender, duration) IN
    /\ Len(activeSessionKeys) < MaxKeyPushes
    /\ IF err = "ok"
       THEN /\ sessionKeys' = [sessionKeys EXCEPT ![key] =
                   [PhantomSessionKey(key, duration) EXCEPT
                       !.allowedTargets = IF sessionKeys[key].key = ZeroAddr
                                          THEN <<PhantomVaultAddr>>
                                          ELSE sessionKeys[key].allowedTargets]]
            /\ activeSessionKeys' = Append(activeSessionKeys, key)
       ELSE UNCHANGED <<sessionKeys, activeSessionKeys>>
    /\ accLast' = [AccCall("createPhantomSessionKey", key, err)
                      EXCEPT !.sender = sender, !.arg = duration]
    /\ UNCHANGED <<owner, initialized>>

createPhantomSessionKey(sender, key, duration) ==
    LET err == createPhantomSessionKeyErr(sender, duration) IN
    /\ Len(activeSessionKeys) < MaxKeyPushes
    /\ IF err = "ok"
       THEN /\ sessionKeys' = [sessionKeys EXCEPT ![key] = PhantomSessionKey(key, duration)]
            /\ activeSessionKeys' = Append(activeSessionKeys, key)
       ELSE UNCHANGED <<sessionKeys, activeSessionKeys>>
    /\ accLast' = [AccCall("createPhantomSessionKey", key, err)
                      EXCEPT !.sender = sender, !.arg = duration]
    /\ UNCHANGED <<owner, initialized>>

revokeSessionKey(sender, key) ==
    LET err == NotOwnerErr(sender) IN
    /\ IF err = "ok"
       THEN sessionKeys' = [sessionKeys EXCEPT ![key].active = FALSE]
       ELSE UNCHANGED sessionKeys
    /\ accLast' = [AccCall("revokeSessionKey", key, err) EXCEPT !.sender = sender]
    /\ UNCHANGED <<owner, activeSessionKeys, initialized>>

isSessionKeyActive(key) == Session(key).active /\ now <= Session(key).validUntil

\* ------------------------------------------------------------ fee sponsor
Cosigner == "cosigner"           \* the remote signer the sponsor is deployed with
Senders == {"alice", "bob"}      \* userOp.sender: the agents asking for sponsorship
\* an address whose last 8 bytes are the first 8 bytes of the ledger's address
Crafted == "crafted"
ZeroSelector == "0x00000000"

\* bytes of an address: its first 8 bytes, its last 12 bytes, its last 8 bytes
High8(a) == <<"hi8", a>>
Low12(a) == <<"lo12", a>>
Low8(a) ==
    CASE a = Crafted -> High8(PhantomVaultAddr)
      [] a = ZeroAddr -> High8(ZeroAddr)
      [] OTHER -> <<"lo8", a>>
\* the top 12 bytes of a uint256 below 2^160: zero bytes
NoValue == Low12(ZeroAddr)

\* the address made of 8 bytes followed by 12 bytes
AddressOf(h8, l12) ==
    LET known == {PhantomVaultAddr, Dex, ZeroAddr, Crafted}
        hit == {a \in known : h8 = High8(a) /\ l12 = Low12(a)}
    IN  IF hit # {} THEN CHOOSE a \in hit : TRUE ELSE <<h8, l12>>

\* userOp.callData as the sponsor reads it:
\*   outer     bytes 0..3, the selector ("short": fewer than 4 bytes,
\*             "executeShort": execute's selector and fewer than 36 bytes in all)
\*   target    bytes 4..35, the first argument word (for execute: the target)
\*   valueTop  bytes 36..47, the top 12 bytes of the second word (for execute: of value)
\*   inner     for execute: the first 4 bytes of data
SponsoredCall(outer, target, valueTop, inner) ==
    [outer |-> outer, target |-> target, valueTop |-> valueTop, inner |-> inner]

\* calldataload(callData.offset + 16) cut to an address: bytes 28..47
_getTarget(callData) ==
    IF callData.outer \in {"short", "executeShort"}
    THEN ZeroAddr
    ELSE AddressOf(Low8(callData.target), callData.valueTop)

\* calldataload(callData.offset) cut to bytes4: bytes 0..3
_getSelector(callData) ==
    CASE callData.outer = "short" -> ZeroSelector
      [] callData.outer = "executeShort" -> "execute"
      [] OTHER -> callData.outer

\* paymasterAndData past the offset: fewer than 77 bytes, or signature ++ validUntil ++ validAfter
ShortData == [kind |-> "short", signature |-> EmptySig, validUntil |-> 0, validAfter |-> 0]
PaymasterData(signature, validUntil, validAfter) ==
    [kind |-> "data", signature |-> signature, validUntil |-> validUntil,
     validAfter |-> validAfter]

\* getHash: chain id and the sponsor's own address are the same in every hash
getHash(userOp, validUntil, validAfter) ==
    [tag |-> "sponsor", user |-> userOp.sender,
     body |-> <<userOp.nonce, userOp.callData, validUntil, validAfter>>]

PaymasterInit ==
    /\ verifyingSigner = Cosigner
    /\ phantomVault = PhantomVaultAddr
    /\ sponsoredTxCount = [u \in Senders |-> 0]
    /\ maxDailySponsored = DefaultMaxDaily
    /\ dailyResetTime = [u \in Senders |-> 0]
    /\ whitelistedSelectors =
          {"createPortfolio", "updatePortfolio", "executeStrategy", "submitStrategy"}
    /\ pmLast = [op |-> "constructor", sender |-> Admin, err |-> "ok", userOp |-> <<>>]
    /\ sponsoredAt = [u \in Senders |-> <<>>]

PmCall(op, sender, err) == [op |-> op, sender |-> sender, err |-> err, userOp |-> <<>>]

\* the window's count reset to 0 instead of 1
_checkAndUpdateDailyLimit_resetsToZero(user) ==
    IF now > dailyResetTime[user] + Day
    THEN [err |-> "ok", resetTime |-> now, count |-> 0]
    ELSE IF sponsoredTxCount[user] >= maxDailySponsored
         THEN [err |-> "DailyLimitExceeded", resetTime |-> dailyResetTime[user],
               count |-> sponsoredTxCount[user]]
         ELSE [err |-> "ok", resetTime |-> dailyResetTime[user],
               count |-> sponsoredTxCount[user] + 1]

\* the window restarting already in its last hour
_checkAndUpdateDailyLimit_restartsAtBoundary(user) ==
    IF now >= dailyResetTime[user] + Day
    THEN [err |-> "ok", resetTime |-> now, count |-> 1]
    ELSE IF sponsoredTxCount[user] >= maxDailySponsored
         THEN [err |-> "DailyLimitExceeded", resetTime |-> dailyResetTime[user],
               count |-> sponsoredTxCount[user]]
         ELSE [err |-> "ok", resetTime |-> dailyResetTime[user],
               count |-> sponsoredTxCount[user] + 1]

\* the outcome, and the values of dailyResetTime[user] and sponsoredTxCount[user] after it
_checkAndUpdateDailyLimit(user) ==
    IF now > dailyResetTime[user] + Day
    THEN [err |-> "ok", resetTime |-> now, count |-> 1]
    ELSE IF sponsoredTxCount[user] >= maxDailySponsored
         THEN [err |-> "DailyLimitExceeded", resetTime |-> dailyResetTime[user],
               count |-> sponsoredTxCount[user]]
         ELSE [err |-> "ok", resetTime |-> dailyResetTime[user],
               count |-> sponsoredTxCount[user] + 1]

\* the recovered co-signer; "revert" for a blob ECDSA.recover refuses
Cosigned(userOp) ==
    recover(getHash(userOp, userOp.paymasterData.validUntil, userOp.paymasterData.validAfter),
            userOp.paymasterData.signature)

_validatePaymasterUserOpErr(userOp) ==
    CASE userOp.paymasterData.kind = "short" -> "Invalid paymaster data length"
      [] Cosigned(userOp) = "revert" -> "ECDSAInvalidSignature"
      [] Cosigned(userOp) # verifyingSigner -> "InvalidSignature"
      [] _getTarget(userOp.callData) # phantomVault -> "InvalidTarget"
      [] _getSelector(userOp.callData) \notin whitelistedSelectors -> "SelectorNotWhitelisted"
      [] OTHER -> _checkAndUpdateDailyLimit(userOp.sender).err

_validatePaymasterUserOp(userOp) ==
    LET err == _validatePaymasterUserOpErr(userOp)
        limit == _checkAndUpdateDailyLimit(userOp.sender)
    IN
    /\ sponsoredTxCount[userOp.sender] < MaxSponsored
    /\ IF err = "ok"
       THEN /\ dailyResetTime' = [dailyResetTime EXCEPT ![userOp.sender] = limit.resetTime]
            /\ sponsoredTxCount' = [sponsoredTxCount EXCEPT ![userOp.sender] = limit.count]
            /\ sponsoredAt' = [sponsoredAt EXCEPT ![userOp.sender] = Append(@, now)]
       ELSE UNCHANGED <<dailyResetTime, sponsoredTxCount, sponsoredAt>>
    /\ pmLast' = [op |-> "validatePaymasterUserOp", sender |-> userOp.sender,
                  err |-> err, userOp |-> userOp]
    /\ UNCHANGED <<verifyingSigner, phantomVault, maxDailySponsored, whitelistedSelectors>>

\* the context _validatePaymasterUserOp hands to the hook: abi.encode(sender, maxCost)
Context(user) == [user |-> user]

\* the hook giving a reverted operation's slot back
_postOp_refundsReverted(mode, context) ==
    /\ pmLast.op = "validatePaymasterUserOp" /\ pmLast.err = "ok"
    /\ context = Context(pmLast.sender)
    /\ sponsoredTxCount' =
          IF mode = "opReverted"
          THEN [sponsoredTxCount EXCEPT ![context.user] = @ - 1]
          ELSE sponsoredTxCount
    /\ pmLast' = PmCall("postOp", context.user, "ok")
                    @@ [mode |-> mode, GasSponsored |-> mode = "opSucceeded"]
    /\ UNCHANGED <<verifyingSigner, phantomVault, maxDailySponsored, dailyResetTime,
                   whitelistedSelectors, sponsoredAt>>

\* BasePaymaster.postOp -> _postOp: the EntryPoint calls it with the context
\* of the operation it has just validated and run; GasSponsored is emitted
\* for an operation that succeeded
_postOp(mode, context) ==
    /\ pmLast.op = "validatePaymasterUserOp" /\ pmLast.err = "ok"
    /\ context = Context(pmLast.sender)
    /\ pmLast' = PmCall("postOp", context.user, "ok")
                    @@ [mode |-> mode, GasSponsored |-> mode = "opSucceeded"]
    /\ UNCHANGED <<verifyingSigner, phantomVault, sponsoredTxCount, maxDailySponsored,
                   dailyResetTime, whitelistedSelectors, sponsoredAt>>

setVerifyingSigner(sender, _newSigner) ==
    LET err == onlyOwnerErr(sender) IN
    /\ verifyingSigner' = IF err = "ok" THEN _newSigner ELSE verifyingSigner
    /\ pmLast' = PmCall("setVerifyingSigner", sender, err)
    /\ UNCHANGED <<phantomVault, sponsoredTxCount, maxDailySponsored, dailyResetTime,
                   whitelistedSelectors, sponsoredAt>>

setPhantomVault(sender, _vault) ==
    LET err == onlyOwnerErr(sender) IN
    /\ phantomVault' = IF err = "ok" THEN _vault ELSE phantomVault
    /\ pmLast' = PmCall("setPhantomVault", sender, err)
    /\ UNCHANGED <<verifyingSigner, sponsoredTxCount, maxDailySponsored, dailyResetTime,
                   whitelistedSelectors, sponsoredAt>>

setMaxDailySponsored(sender, _max) ==
    LET err == onlyOwnerErr(sender) IN
    /\ maxDailySponsored' = IF err = "ok" THEN _max ELSE maxDailySponsored
    /\ sponsoredAt' = IF maxDailySponsored' = maxDailySponsored THEN sponsoredAt
                      ELSE [u \in Senders |-> <<>>]
    /\ pmLast' = PmCall("setMaxDailySponsored", sender, err)
    /\ UNCHANGED <<verifyingSigner, phantomVault, sponsoredTxCount, dailyResetTime,
                   whitelistedSelectors>>

whitelistSelector(sender, _selector, _status) ==
    LET err == onlyOwnerErr(sender) IN
    /\ whitelistedSelectors' =
          IF err # "ok" THEN whitelistedSelectors
          ELSE IF _status THEN whitelistedSelectors \cup {_selector}
          ELSE whitelistedSelectors \ {_selector}
    /\ pmLast' = PmCall("whitelistSelector", sender, err)
    /\ UNCHANGED <<verifyingSigner, phantomVault, sponsoredTxCount, maxDailySponsored,
                   dailyResetTime, sponsoredAt>>

\* ---------------------------------------------------------- agent factory
\* the factory's addresses are the tuples they are computed from
Implementation == <<"create", "factory">>   \* accountImplementation = new PhantomAccount(...)
NoAccount == <<>>                           \* address(0), an unset ownerToAccount entry

\* Create2.computeAddress(salt, keccak256(creationCode ++ (implementation, initialize(owner))))
getAddress_ignoresOwner(_owner, salt) == <<"create2", salt, ZeroAddr>>

getAddress(_owner, salt) == <<"create2", salt, _owner>>

FactoryInit ==
    /\ accounts = <<>>
    /\ ownerToAccount = [o \in Users |-> NoAccount]
    /\ totalAccounts = 0
    /\ facLast = [op |-> "constructor", sender |-> Admin, owner |-> ZeroAddr, salt |-> 0,
                  result |-> Implementation, deployed |-> TRUE]

\* new ERC1967Proxy{salt}(implementation, initialize(owner)): the proxy's
\* constructor runs the initializer on its fresh storage
Deployed(_owner) ==
    IF initializeErr("fresh") = "ok"
    THEN [owner |-> _owner, initialized |-> "initialized"]
    ELSE [owner |-> ZeroAddr, initialized |-> "fresh"]

createAccount(sender, _owner, salt) ==
    LET addr == getAddress(_owner, salt)
        exists == addr \in DOMAIN accounts      \* addr.code.length > 0
    IN
    /\ exists \/ totalAccounts < MaxAccounts
    /\ IF exists
       THEN UNCHANGED <<accounts, ownerToAccount, totalAccounts>>
       ELSE /\ accounts' = [a \in DOMAIN accounts \cup {addr} |->
                               IF a = addr THEN Deployed(_owner) ELSE accounts[a]]
            /\ ownerToAccount' = [ownerToAccount EXCEPT ![_owner] = addr]
            /\ totalAccounts' = totalAccounts + 1
    /\ facLast' = [op |-> "createAccount", sender |-> sender, owner |-> _owner,
                   salt |-> salt, result |-> addr, deployed |-> ~exists]

accountExists(_owner) == ownerToAccount[_owner] # NoAccount

\* ------------------------------------------------- ledger administration
Workerpool == "workerpool"
FeeRecipient == "feeRecipient"

AdminInit ==
    /\ trustedWorkerpool = Workerpool
    /\ executionFeeBps = DefaultFeeBps
    /\ feeRecipient = FeeRecipient
    /\ strayTokens = 0

\* what the ledger's own operations leave alone besides the call log
LedgerCore == <<now, paused, trustedIApp, minRebalanceInterval, portfolios, strategies,
                riskHistory, totalPortfolios, totalStrategiesExecuted, rebalanced>>

setTrustedWorkerpool(sender, _trustedWorkerpool) ==
    LET err == onlyOwnerErr(sender) IN
    /\ trustedWorkerpool' = IF err = "ok" THEN _trustedWorkerpool ELSE trustedWorkerpool
    /\ last' = AdminCall("setTrustedWorkerpool", sender, err)
    /\ UNCHANGED <<LedgerCore, executionFeeBps, feeRecipient, strayTokens>>

setFeesErr(sender, _feeBps) ==
    CASE onlyOwnerErr(sender) # "ok" -> onlyOwnerErr(sender)
      [] _feeBps > MaxFeeBps -> "Fee too high"
      [] OTHER -> "ok"

setFees(sender, _feeBps, _feeRecipient) ==
    LET err == setFeesErr(sender, _feeBps) IN
    /\ executionFeeBps' = IF err = "ok" THEN _feeBps ELSE executionFeeBps
    /\ feeRecipient' = IF err = "ok" THEN _feeRecipient ELSE feeRecipient
    /\ last' = AdminCall("setFees", sender, err)
    /\ UNCHANGED <<LedgerCore, trustedWorkerpool, strayTokens>>

\* IERC20(token).safeTransfer(owner(), amount)
rescueTokensErr(sender, amount) ==
    CASE onlyOwnerErr(sender) # "ok" -> onlyOwnerErr(sender)
      [] amount > strayTokens -> "ERC20InsufficientBalance"
      [] OTHER -> "ok"

rescueTokens(sender, amount) ==
    LET err == rescueTokensErr(sender, amount) IN
    /\ strayTokens' = IF err = "ok" THEN strayTokens - amount ELSE strayTokens
    /\ last' = AdminCall("rescueTokens", sender, err)
    /\ UNCHANGED <<LedgerCore, trustedWorkerpool, executionFeeBps, feeRecipient>>

\* someone sends the ledger a token by mistake
StrayTransfer(sender, amount) ==
    /\ strayTokens + amount <= MaxStray
    /\ strayTokens' = strayTokens + amount
    /\ last' = AdminCall("transfer", sender, "ok")
    /\ UNCHANGED <<LedgerCore, trustedWorkerpool, executionFeeBps, feeRecipient>>

\* ------------------------------------------------- the agent's environment
CallDatas ==
    {CallData("short", ZeroAddr, "none"), CallData("executeShort", ZeroAddr, "none"),
     CallData("executeBatch", PhantomVaultAddr, "createPortfolio")}
    \cup {CallData("execute", t, i) : t \in {PhantomVaultAddr, Dex},
                                      i \in {"executeStrategy", "createPortfolio"}}
\* the operations a bundler may present: signed by any key, over this operation
\* or over another one, or carrying a malformed blob
Signatures(callData) ==
    {Sig(k, OpHash(callData)) : k \in Signers}
    \cup {Sig(AccountOwner, NoMsg), EmptySig, BadSig}
UserOps ==
    UNION {{[callData |-> c, signature |-> s] : s \in Signatures(c)} : c \in CallDatas}

AccountNext ==
    \/ \E s \in {AccountOwner, Bot}, k \in KeyAddrs, t \in {<<PhantomVaultAddr>>, <<Dex>>} :
          createSessionKey(s, k, now, 0, t, <<"executeStrategy">>)
    \/ \E s \in {AccountOwner, Bot}, k \in KeyAddrs, d \in {0, 1} :
          createPhantomSessionKey(s, k, d)
    \/ \E s \in {AccountOwner, Bot}, k \in KeyAddrs : revokeSessionKey(s, k)
    \/ \E op \in UserOps : validateUserOp(op)

\* ------------------------------------------------- the ledger's environment
Callers == Users \cup {Admin}
WETH == "WETH"
RawHash == <<"0xfeed">>
\* the hashes a caller may present: zero, one chosen freely, the recorded fingerprints
Hashes == {ZeroHash, RawHash} \cup DOMAIN strategies
\* the Strategy structs a caller of triggerAutoRebalance may present
TriggerStrategies ==
    {[strategyHash |-> h, targetAssets |-> <<WETH>>, allocations |-> <<10000>>,
      teeSignature |-> EmptySig, validUntil |-> v, executed |-> FALSE] :
        h \in Hashes \ {ZeroHash}, v \in {0, now + 1}}

\* what the attester would sign for the strategy sender submits now
SubmitMsg(sender, targetAssets, allocations) ==
    StrategyMsg(sender, [strategyHash |-> Fingerprint(sender, targetAssets, allocations, now),
                         targetAssets |-> targetAssets])

\* The strategy lifecycle: owners with auto-rebalancing portfolios, strategies
\* submitted with and without an attestation, executed by anyone, the automatic
\* path with genuine and forged attestations, and the clock.
StrategyNext ==
    \/ createPortfolio("alice", "d1", TRUE, 500)
    \/ \E s \in Users, a \in {<<>>, <<10000>>}, p \in {0, 1, MaxValidity + 1} :
          \E sig \in {EmptySig, Sig(TEE, SubmitMsg(s, <<WETH>>, a))} :
              submitStrategy(s, <<WETH>>, a, sig, p)
    \/ \E s \in Users, h \in Hashes : executeStrategy(s, h)
    \/ \E u \in Users, d \in {400, 600}, st \in TriggerStrategies :
          \E sig \in {Sig(Mallory, StrategyMsg(u, st)), Sig(TEE, StrategyMsg(u, st))} :
              triggerAutoRebalance(Admin, u, d, st, sig)
    \/ Tick

Init == VaultInit /\ AccountInit /\ PaymasterInit /\ FactoryInit /\ AdminInit /\ GuardInit

\* the ledger alone
Spec == Init /\ [][StrategyNext /\ UNCHANGED <<accountVars, paymasterVars, factoryVars, adminVars, guardVars>>]_vars

\* the execution agent and the clock
AccountTick ==
    /\ Tick
    /\ accLast' = AccCall("tick", ZeroAddr, "ok")
    /\ UNCHANGED <<owner, sessionKeys, activeSessionKeys, initialized>>
    /\ UNCHANGED <<paymasterVars, factoryVars, adminVars, guardVars>>

SpecAccount ==
    Init /\ [][(AccountNext /\ UNCHANGED <<vaultVars, paymasterVars, factoryVars, adminVars, guardVars>>) \/ AccountTick]_vars

\* Key management: keys created, re-created and revoked by the owner and by
\* others, with durations up to the largest uint256, and operations signed by
\* the registered addresses for the ledger and for another contract.
KeyCalls ==
    {CallData("execute", t, "executeStrategy") : t \in {PhantomVaultAddr, Dex}}
KeyOps ==
    {[callData |-> c, signature |-> Sig(k, OpHash(c))] : c \in KeyCalls, k \in KeyAddrs}
KeyNext ==
    \/ \E s \in Signers, k \in KeyAddrs :
          createSessionKey(s, k, now + 1, 0, <<Dex>>, <<"executeStrategy">>)
    \/ \E s \in Signers, k \in KeyAddrs, d \in {0, 1, MaxUint} :
          createPhantomSessionKey(s, k, d)
    \/ \E s \in Signers, k \in KeyAddrs : revokeSessionKey(s, k)
    \/ \E op \in KeyOps : validateUserOp(op)

SpecKeys ==
    Init /\ [][(KeyNext /\ UNCHANGED <<vaultVars, paymasterVars, factoryVars, adminVars, guardVars>>) \/ AccountTick]_vars

\* The portfolio records: two owners creating, re-creating and updating
\* portfolios with thresholds at and beyond the limit, attested and forged risk
\* reports, the administrator pausing and unpausing, and the clock.
RiskReport(portfolioScore, timestamp) ==
    [portfolioScore |-> portfolioScore, timestamp |-> timestamp]
PortfolioTick ==
    /\ Tick
    /\ UNCHANGED <<accountVars, paymasterVars, factoryVars, adminVars, guardVars>>
PortfolioNext ==
    \/ \E s \in Users, d \in {ZeroData, "d1"}, t \in {MaxThreshold, MaxThreshold + 1} :
          createPortfolio(s, d, TRUE, t)
    \/ \E s \in Users, d \in {ZeroData, "d2"}, t \in {0, MaxThreshold + 1} :
          updatePortfolio(s, d, FALSE, t)
    \/ \E u \in Users, score \in {30, 70}, k \in {TEE, Mallory} :
          submitRiskAnalysis(Admin, u, RiskReport(score, now),
                             Sig(k, ReportMsg(u, RiskReport(score, now))))
    \/ pause(Admin)
    \/ unpause(Admin)

SpecPortfolio ==
    Init /\ [][(PortfolioNext /\ UNCHANGED <<accountVars, paymasterVars, factoryVars, adminVars, guardVars>>)
              \/ PortfolioTick]_vars

\* The automatic path: a portfolio with and without auto-rebalancing, risk
\* reports that move lastAnalysis, deviations just below and at the threshold,
\* attestations by the attester and by someone else, blobs that are no
\* signature, and the clock.
TriggerStrategy ==
    [strategyHash |-> RawHash, targetAssets |-> <<WETH>>, allocations |-> <<10000>>,
     teeSignature |-> EmptySig, validUntil |-> now + 1, executed |-> FALSE]
TriggerNext ==
    \/ \E a \in BOOLEAN : createPortfolio("alice", "d1", a, 500)
    \/ submitRiskAnalysis(Admin, "alice", RiskReport(30, now),
                          Sig(TEE, ReportMsg("alice", RiskReport(30, now))))
    \/ \E u \in Users, d \in {499, 500} :
          \E sig \in {Sig(TEE, StrategyMsg(u, TriggerStrategy)),
                       Sig(Mallory, StrategyMsg(u, TriggerStrategy)),
                       Sig(TEE, NoMsg), EmptySig, BadSig} :
              triggerAutoRebalance(Admin, u, d, TriggerStrategy, sig)

SpecTrigger ==
    Init /\ [][(TriggerNext /\ UNCHANGED <<accountVars, paymasterVars, factoryVars, adminVars, guardVars>>)
              \/ PortfolioTick]_vars

\* Two owners: each with a portfolio, submitting the same assets and
\* allocations, possibly in the same block, and executing each other's
\* strategies.
TwoOwnersNext ==
    \/ \E s \in Users : createPortfolio(s, "d1", TRUE, 500)
    \/ \E s \in Users : submitStrategy(s, <<WETH>>, <<10000>>, EmptySig, 1)
    \/ \E s \in Users, h \in Hashes : executeStrategy(s, h)

SpecTwoOwners ==
    Init /\ [][(TwoOwnersNext /\ UNCHANGED <<accountVars, paymasterVars, factoryVars, adminVars, guardVars>>)
              \/ PortfolioTick]_vars

\* Sponsorship: wrapped calls to the ledger and call data built so that the
\* bytes the sponsor reads spell the ledger's address, co-signed by the remote
\* signer or by someone else, for two senders; the administrator moving the
\* cap and the whitelist; the clock moving to the last hour of a sender's day
\* window or past it.
SponsoredCalls ==
    {SponsoredCall("short", ZeroAddr, NoValue, "none"),
     SponsoredCall("execute", PhantomVaultAddr, NoValue, "executeStrategy"),
     SponsoredCall("execute", Crafted, Low12(PhantomVaultAddr), "executeStrategy"),
     SponsoredCall("executeStrategy", Crafted, Low12(PhantomVaultAddr), "none")}
Unsigned(sender, callData) ==
    [sender |-> sender, nonce |-> 0, callData |-> callData, paymasterData |-> ShortData]
PaymasterDatas(sender, callData) ==
    {ShortData, PaymasterData(BadSig, 0, 0)}
    \cup {PaymasterData(Sig(k, getHash(Unsigned(sender, callData), 0, 0)), 0, 0) :
              k \in {Cosigner, Mallory}}
SponsoredOps ==
    UNION {{[Unsigned(u, c) EXCEPT !.paymasterData = d] : d \in PaymasterDatas(u, c)} :
              u \in Senders, c \in SponsoredCalls}

Warp(hours) ==
    /\ now + hours <= StartTime + MaxWarp
    /\ now' = now + hours
    /\ pmLast' = PmCall("warp", ZeroAddr, "ok")
    /\ UNCHANGED <<paused, trustedIApp, minRebalanceInterval, portfolios, strategies,
                   riskHistory, totalPortfolios, totalStrategiesExecuted, rebalanced, last>>
    /\ UNCHANGED <<verifyingSigner, phantomVault, sponsoredTxCount, maxDailySponsored,
                   dailyResetTime, whitelistedSelectors, sponsoredAt>>
    /\ UNCHANGED <<accountVars, factoryVars, adminVars, guardVars>>

PaymasterNext ==
    \/ \E op \in SponsoredOps : _validatePaymasterUserOp(op)
    \/ \E s \in {Admin, Mallory}, m \in {0, 1} : setMaxDailySponsored(s, m)
    \/ \E s \in {Admin, Mallory} : whitelistSelector(s, "execute", TRUE)

SpecPaymaster ==
    Init /\ [][\/ PaymasterNext /\ UNCHANGED <<now, paused, trustedIApp, minRebalanceInterval,
                                                portfolios, strategies, riskHistory,
                                                totalPortfolios, totalStrategiesExecuted,
                                                rebalanced, last, accountVars, factoryVars,
                                                adminVars, guardVars>>
              \/ \E h \in {Day, Day + 1} : Warp(h)]_vars

\* The daily quota: two senders' co-signed and forged operations, of the
\* shape the sponsor accepts with its initial whitelist, the administrator
\* (and someone else) setting the cap to 2, and the clock moving to the last
\* hour of the first day window and then one hour on.
QuotaCall == SponsoredCall("executeStrategy", Crafted, Low12(PhantomVaultAddr), "none")

QuotaOps ==
    {[Unsigned(u, QuotaCall) EXCEPT
         !.paymasterData = PaymasterData(Sig(k, getHash(Unsigned(u, QuotaCall), 0, 0)), 0, 0)] :
        u \in Senders, k \in {Cosigner, Mallory}}

QuotaNext ==
    \/ /\ \/ \E op \in QuotaOps : _validatePaymasterUserOp(op)
          \/ \E s \in {Admin, Mallory} : setMaxDailySponsored(s, 2)
       /\ UNCHANGED <<vaultVars, accountVars, factoryVars, adminVars, guardVars>>
    \/ /\ now = StartTime
       /\ Warp(Day)
    \/ /\ now = StartTime + Day
       /\ Warp(1)

SpecQuota == Init /\ [][QuotaNext]_vars

\* The post-execution hook: operations validated, run to success or to a
\* revert, and reported to the hook, within a day window and past it.
PostOpModes == {"opSucceeded", "opReverted"}

PostOpNext ==
    \/ /\ \/ \E op \in QuotaOps : _validatePaymasterUserOp(op)
          \/ \E mode \in PostOpModes, u \in Senders : _postOp(mode, Context(u))
       /\ UNCHANGED <<vaultVars, accountVars, factoryVars, adminVars, guardVars>>
    \/ /\ now = StartTime
       /\ Warp(Day + 1)

SpecPostOp == Init /\ [][PostOpNext]_vars

\* The stored arrays: one owner submitting strategies with arrays of equal and
\* of different lengths, and anyone presenting the attester's signature over
\* (owner, fingerprint, assets) with the allocations it was issued for or with
\* others, which the signature does not cover.
SplitStrategy == [TriggerStrategy EXCEPT !.allocations = <<5000, 5000>>]

ArraysNext ==
    \/ createPortfolio("alice", "d1", TRUE, 500)
    \/ \E al \in {<<10000>>, <<5000, 5000>>} :
          submitStrategy("alice", <<WETH>>, al, EmptySig, 1)
    \/ \E st \in {TriggerStrategy, SplitStrategy}, k \in {TEE, Mallory} :
          triggerAutoRebalance(Mallory, "alice", 500, st,
                               Sig(k, StrategyMsg("alice", TriggerStrategy)))

SpecArrays ==
    Init /\ [][(ArraysNext /\ UNCHANGED <<accountVars, paymasterVars, factoryVars, adminVars, guardVars>>)
               \/ PortfolioTick]_vars

\* Submission: owners with and without a portfolio submitting arrays of equal
\* and of different lengths for no time, for the longest period and for an
\* hour more, while the administrator pauses and unpauses.
SubmitNext ==
    \/ createPortfolio("alice", "d1", TRUE, 500)
    \/ \E s \in Users, al \in {<<>>, <<10000>>}, vp \in {0, MaxValidity, MaxValidity + 1} :
          submitStrategy(s, <<WETH>>, al, EmptySig, vp)
    \/ pause(Admin)
    \/ unpause(Admin)

SpecSubmit ==
    Init /\ [][(SubmitNext /\ UNCHANGED <<accountVars, paymasterVars, factoryVars, adminVars, guardVars>>)
               \/ PortfolioTick]_vars

\* Re-entrancy: one owner's strategy submitted, executed and triggered, the
\* rebalance action calling executeStrategy and triggerAutoRebalance back for
\* the same and for other fingerprints before it returns.
ReentryTop ==
    \/ createPortfolio("alice", "d1", TRUE, 500)
    \/ submitStrategy("alice", <<WETH>>, <<10000>>, EmptySig, 1)

ReentryNext ==
    \/ /\ running = NoCall
       /\ ReentryTop
       /\ UNCHANGED guardVars
    \/ \E h \in Hashes : executeStrategyEnter(Mallory, h)
    \/ triggerAutoRebalanceEnter(Mallory, "alice", 500, TriggerStrategy,
                                 Sig(TEE, StrategyMsg("alice", TriggerStrategy)))
    \/ \E h \in Hashes : executeStrategyReenter(Dex, h)
    \/ triggerAutoRebalanceReenter(Dex, "alice", 500, TriggerStrategy,
                                   Sig(TEE, StrategyMsg("alice", TriggerStrategy)))
    \/ executeRebalanceReturn

SpecReentry ==
    Init /\ [][ReentryNext /\ UNCHANGED <<accountVars, paymasterVars, factoryVars, adminVars>>]_vars

\* The attester key: the administrator configuring another key or the zero
\* address, and reports and strategies presented with the attester's
\* signature, with someone else's, and with 65 bytes that recover to nothing.
AttesterNext ==
    \/ \E k \in {Mallory, ZeroAddr} : setTrustedIApp(Admin, k)
    \/ createPortfolio("alice", "d1", TRUE, 500)
    \/ \E sig \in {Sig(TEE, ReportMsg("alice", RiskReport(30, now))),
                   Sig(Mallory, ReportMsg("alice", RiskReport(30, now))), BadSig} :
          submitRiskAnalysis(Mallory, "alice", RiskReport(30, now), sig)
    \/ \E sig \in {Sig(TEE, StrategyMsg("alice", TriggerStrategy)),
                   Sig(Mallory, StrategyMsg("alice", TriggerStrategy)), BadSig} :
          triggerAutoRebalance(Mallory, "alice", 500, TriggerStrategy, sig)

SpecAttester ==
    Init /\ [][(AttesterNext /\ UNCHANGED <<accountVars, paymasterVars, factoryVars,
                                           adminVars, guardVars>>)
               \/ PortfolioTick]_vars

\* Who executes: one owner's strategies, executed by the owner, by the owner's
\* execution agent and by an address that is neither, while the clock runs
\* and the administrator pauses and unpauses.
ExecuteCallers == {"alice", Self, Mallory}

CallersNext ==
    \/ createPortfolio("alice", "d1", TRUE, 500)
    \/ \E vp \in {0, 1} : submitStrategy("alice", <<WETH>>, <<10000>>, EmptySig, vp)
    \/ \E c \in ExecuteCallers, h \in Hashes : executeStrategy(c, h)
    \/ pause(Admin)
    \/ unpause(Admin)

SpecCallers ==
    Init /\ [][(CallersNext /\ UNCHANGED <<accountVars, paymasterVars, factoryVars,
                                          adminVars, guardVars>>)
               \/ PortfolioTick]_vars

\* Calling out: the owner delegating and revoking a key, and execute invoked
\* by the entry point, by the owner, by the key's holder and by a stranger.
ExecuteNext ==
    \/ createPhantomSessionKey(AccountOwner, Bot, 1)
    \/ revokeSessionKey(AccountOwner, Bot)
    \/ \E s \in {EntryPoint, AccountOwner, Bot, Mallory}, t \in {Self, PhantomVaultAddr},
          f \in {"initialize", "executeStrategy"} :
              execute(s, t, f, Mallory)
    \/ \E op \in KeyOps : validateUserOp(op)

SpecExecute ==
    Init /\ [][(ExecuteNext /\ UNCHANGED <<vaultVars, paymasterVars, factoryVars,
                                          adminVars, guardVars>>)
               \/ AccountTick]_vars

\* Replay: one attested report for one owner, submitted again and again by
\* the attester's relay and by a stranger, between attested triggers, while
\* the clock runs and the administrator pauses and unpauses.
ReplayedReport == RiskReport(30, StartTime)

ReplayNext ==
    \/ createPortfolio("alice", "d1", TRUE, 500)
    \/ \E c \in {Admin, Mallory} :
          submitRiskAnalysis(c, "alice", ReplayedReport,
                             Sig(TEE, ReportMsg("alice", ReplayedReport)))
    \/ triggerAutoRebalance(Mallory, "alice", 500, TriggerStrategy,
                            Sig(TEE, StrategyMsg("alice", TriggerStrategy)))
    \/ pause(Admin)
    \/ unpause(Admin)

SpecReplay ==
    Init /\ [][(ReplayNext /\ UNCHANGED <<accountVars, paymasterVars, factoryVars,
                                         adminVars, guardVars>>)
               \/ PortfolioTick]_vars

\* ================================================================ claims
\* a record was stored under f, and f is not the zero value the ledger
\* reserves for "no record"
Known(f) == f \in DOMAIN strategies /\ f # ZeroHash

\* the sender a fingerprint was derived from
FingerprintOwner(f) == f[1]

\* C1: once a strategy's executed flag is true it never returns to false
\* (so isStrategyValid stays false and a later executeStrategy fails
\* StrategyAlreadyExecuted), whatever ledger operation comes next.
C1_ExecutedIsPermanent ==
    [][\A f \in DOMAIN strategies : strategies[f].executed => strategies'[f].executed]_vars

\* C2: the rebalance action is performed at most once per fingerprint, over
\* any sequence of executeStrategy and triggerAutoRebalance calls.
C2_AtMostOnce == \A f \in DOMAIN rebalanced : rebalanced[f] <= 1

\* C3: no step sets a record's executed flag at a time strictly greater than
\* the record's validUntil.
C3_NoExecutionPastDeadline ==
    [][\A f \in DOMAIN strategies' :
          (~Strat(f).executed /\ strategies'[f].executed) => now' <= strategies'[f].validUntil]_vars

\* C4: every record submitStrategy stores carries an attestation that recovers
\* to the trusted attester key.
C4_SubmitStoresOnlyAttested ==
    (last.op = "submitStrategy" /\ last.err = "ok") =>
        _recoverSigner(StrategyMsg(FingerprintOwner(last.h), Strat(last.h)),
                       Strat(last.h).teeSignature) = trustedIApp

\* C5: isStrategyValid(f) is true exactly when f is known, not executed and
\* now <= validUntil; and right after a successful submitStrategy returning f
\* it is true, for every allowed validity period including 0.
C5_IsValidIff ==
    /\ \A f \in Hashes :
          isStrategyValid(f) <=>
              (Known(f) /\ ~strategies[f].executed /\ now <= strategies[f].validUntil)
    /\ (last.op = "submitStrategy" /\ last.err = "ok") => isStrategyValid(last.h)

\* a strategy submitted with validity period 0 is valid at its own timestamp
C5_Witness ==
    /\ last.op = "submitStrategy" /\ last.err = "ok"
    /\ Strat(last.h).validUntil = now
    /\ isStrategyValid(last.h)

\* C6 as stated: executeStrategy(f) for a known f after its deadline fails
\* StrategyExpired, executed before or not, and changes nothing.
C6_AlwaysExpired ==
    [][(last'.op = "executeStrategy" /\ Known(last'.h) /\ now > Strat(last'.h).validUntil)
          => /\ last'.err = "StrategyExpired"
             /\ UNCHANGED <<strategies, totalStrategiesExecuted, rebalanced>>]_vars

\* C6 as amended: while the ledger is not paused, executeStrategy(f) for a
\* known f after its deadline fails StrategyAlreadyExecuted when f's executed
\* flag is set and StrategyExpired otherwise, and changes neither the records
\* nor the counter; for an unknown f it fails InvalidParameters.
C6_ExpiredOrAlreadyExecuted ==
    [][(last'.op = "executeStrategy" /\ ~paused) =>
          /\ ~Known(last'.h) =>
                /\ last'.err = "InvalidParameters"
                /\ UNCHANGED <<strategies, totalStrategiesExecuted, rebalanced>>
          /\ (Known(last'.h) /\ now > Strat(last'.h).validUntil) =>
                /\ last'.err = IF Strat(last'.h).executed
                               THEN "StrategyAlreadyExecuted" ELSE "StrategyExpired"
                /\ UNCHANGED <<strategies, totalStrategiesExecuted, rebalanced>>]_vars

\* a never-executed strategy refused after its deadline
C6_Witness ==
    /\ last.op = "executeStrategy" /\ last.err = "StrategyExpired"
    /\ Known(last.h) /\ ~Strat(last.h).executed
    /\ now > Strat(last.h).validUntil

\* ------------------------------------------------ the factory's environment
Salts == {0, 1}

\* anyone may call the factory, for any owner and salt
FactoryNext ==
    \E sender \in {Mallory, AccountOwner}, o \in Users, salt \in Salts :
        createAccount(sender, o, salt)

SpecFactory ==
    Init /\ [][FactoryNext /\ UNCHANGED <<vaultVars, accountVars, paymasterVars, adminVars, guardVars>>]_vars

\* ------------------------------------------- the administrator's environment
AdminCallers == {Admin, Mallory}

\* every administrative operation of the ledger and of the fee sponsor, by the
\* administrator and by someone else, next to calls anyone may make
AdminNext ==
    \/ /\ \/ \E s \in AdminCallers : setTrustedIApp(s, Mallory)
          \/ \E s \in AdminCallers : setMinRebalanceInterval(s, DefaultInterval + 1)
          \/ \E s \in AdminCallers : pause(s)
          \/ \E s \in AdminCallers : unpause(s)
          \/ createPortfolio("alice", "d1", TRUE, 500)
       /\ UNCHANGED <<adminVars, paymasterVars>>
    \/ /\ \/ \E s \in AdminCallers : setTrustedWorkerpool(s, Mallory)
          \/ \E s \in AdminCallers, f \in {MaxFeeBps, MaxFeeBps + 1} : setFees(s, f, Mallory)
          \/ \E s \in AdminCallers : rescueTokens(s, 1)
          \/ StrayTransfer(Mallory, 1)
       /\ UNCHANGED paymasterVars
    \/ /\ \/ \E s \in AdminCallers : setVerifyingSigner(s, Mallory)
          \/ \E s \in AdminCallers : setPhantomVault(s, Dex)
          \/ \E s \in AdminCallers : setMaxDailySponsored(s, 1)
          \/ \E s \in AdminCallers : whitelistSelector(s, "executeStrategy", FALSE)
       /\ UNCHANGED <<vaultVars, adminVars>>

SpecAdmin == Init /\ [][AdminNext /\ UNCHANGED <<accountVars, factoryVars, guardVars>>]_vars

\* ------------------------------------------------------ the pause switch
\* one owner going through every state-changing operation of the ledger while
\* the administrator, and someone else, pause and unpause it
PauseNext ==
    \/ createPortfolio("alice", "d1", TRUE, 500)
    \/ updatePortfolio("alice", "d2", TRUE, 500)
    \/ submitRiskAnalysis(Admin, "alice", RiskReport(30, now),
                          Sig(TEE, ReportMsg("alice", RiskReport(30, now))))
    \/ submitStrategy("alice", <<WETH>>, <<10000>>, EmptySig, 1)
    \/ \E h \in Hashes : executeStrategy("alice", h)
    \/ triggerAutoRebalance(Admin, "alice", 500, TriggerStrategy,
                            Sig(TEE, StrategyMsg("alice", TriggerStrategy)))
    \/ \E s \in AdminCallers : pause(s)
    \/ \E s \in AdminCallers : unpause(s)

SpecPause ==
    Init /\ [][(PauseNext /\ UNCHANGED <<accountVars, paymasterVars, factoryVars, adminVars, guardVars>>)
               \/ PortfolioTick]_vars

\* ------------------------------------------------ the agent's initialization
\* an agent before its initializer ran: a proxy deployed without the call
\* ("fresh"), or the implementation template, whose constructor disabled the
\* initializer for good
LifecycleInit ==
    /\ owner = ZeroAddr
    /\ initialized \in {"fresh", "disabled"}
    /\ sessionKeys = [k \in KeyAddrs |-> EmptySessionKey]
    /\ activeSessionKeys = <<>>
    /\ accLast = AccCall("constructor", ZeroAddr, "ok")

InitLifecycle ==
    VaultInit /\ LifecycleInit /\ PaymasterInit /\ FactoryInit /\ AdminInit /\ GuardInit

\* initialize called directly and through execute, by anyone and for any
\* owner, among key creation, revocation and validation
LifecycleNext ==
    \/ \E s \in {AccountOwner, Mallory}, o \in {AccountOwner, Mallory} : initialize(s, o)
    \/ \E s \in {EntryPoint, AccountOwner, Mallory}, t \in {Self, PhantomVaultAddr},
          f \in {"initialize", "executeStrategy"} :
              execute(s, t, f, Mallory)
    \/ \E s \in {AccountOwner, Mallory} : createPhantomSessionKey(s, Bot, 1)
    \/ \E s \in {AccountOwner, Mallory} :
          createSessionKey(s, Bot, now + 1, 0, <<Dex>>, <<"executeStrategy">>)
    \/ \E s \in {AccountOwner, Mallory} : revokeSessionKey(s, Bot)
    \/ \E op \in KeyOps : validateUserOp(op)

SpecLifecycle ==
    InitLifecycle /\ [][(LifecycleNext /\ UNCHANGED <<vaultVars, paymasterVars, factoryVars, adminVars, guardVars>>)
                        \/ AccountTick]_vars

\* ------------------------------------------------ execution agent claims
\* the key that signed this very operation; "nobody" for a malformed blob or
\* a signature made over something else
SignedBy(userOp) ==
    IF userOp.signature.kind = "sig" /\ userOp.signature.msg = OpHash(userOp.callData)
    THEN userOp.signature.signer ELSE "nobody"

Validated == accLast.op = "validateUserOp"

\* signed by a delegated key that is active and not expired
BySessionKey(userOp) ==
    /\ SignedBy(userOp) # owner
    /\ Session(SignedBy(userOp)).active
    /\ now <= Session(SignedBy(userOp)).validUntil

\* C7 as stated: validation accepts exactly the operations signed by the owner,
\* or by an active, unexpired session key whose allowedTargets holds the target
\* when the operation is a wrapped single call.
C7_AcceptsIff ==
    Validated =>
        (accLast.err = "ok" <=>
            \/ SignedBy(accLast.userOp) = owner
            \/ /\ BySessionKey(accLast.userOp)
               /\ accLast.userOp.callData.outer = "execute" =>
                     InList(Session(SignedBy(accLast.userOp)).allowedTargets,
                            accLast.userOp.callData.target))

\* C7 as amended: for a session key the call data must also hold a 4-byte
\* selector and, when the selector is execute's, the whole target word.
C7_AcceptsIffWellFormed ==
    Validated =>
        (accLast.err = "ok" <=>
            \/ SignedBy(accLast.userOp) = owner
            \/ /\ BySessionKey(accLast.userOp)
               /\ accLast.userOp.callData.outer \notin {"short", "executeShort"}
               /\ accLast.userOp.callData.outer = "execute" =>
                     InList(Session(SignedBy(accLast.userOp)).allowedTargets,
                            accLast.userOp.callData.target))

\* a session key's wrapped call to a target outside its list was rejected
C7_Witness ==
    /\ Validated /\ BySessionKey(accLast.userOp)
    /\ accLast.userOp.callData.outer = "execute"
    /\ ~InList(Session(SignedBy(accLast.userOp)).allowedTargets,
               accLast.userOp.callData.target)
    /\ accLast.err = "SIG_VALIDATION_FAILED"

\* C8: a wrapped call signed by an active, unexpired session key to an allowed
\* target is rejected when its selector is not in the key's allowedSelectors.
C8_SelectorScoped ==
    (/\ Validated /\ BySessionKey(accLast.userOp)
     /\ accLast.userOp.callData.outer = "execute"
     /\ InList(Session(SignedBy(accLast.userOp)).allowedTargets,
               accLast.userOp.callData.target)
     /\ ~InList(Session(SignedBy(accLast.userOp)).allowedSelectors,
                accLast.userOp.callData.inner))
    => accLast.err # "ok"

\* C9: an operation signed by a session key that is not a wrapped single call
\* is rejected.
C9_OnlyWrappedSingleCalls ==
    (/\ Validated /\ BySessionKey(accLast.userOp)
     /\ accLast.userOp.callData.outer # "execute")
    => accLast.err # "ok"

\* no operation signed by k passes validation, and isSessionKeyActive(k) is false
Blocked(k) ==
    /\ ~isSessionKeyActive(k)
    /\ \A c \in CallDatas :
          _validateSignature([callData |-> c, signature |-> Sig(k, OpHash(c))]) # "ok"

RevokedBy(k) ==
    accLast'.op = "revokeSessionKey" /\ accLast'.key = k /\ accLast'.err = "ok"

CreatedBy(k) ==
    /\ accLast'.op \in {"createSessionKey", "createPhantomSessionKey"}
    /\ accLast'.key = k /\ accLast'.err = "ok"

\* C10 as stated: after the owner's revokeSessionKey(k) nothing signed by k
\* passes validation until the owner creates k again, for every address k.
C10_RevokedStaysBlocked ==
    [][\A k \in KeyAddrs :
          /\ RevokedBy(k) => Blocked(k)'
          /\ (Blocked(k) /\ ~Blocked(k)') => CreatedBy(k)]_vars

\* C10 as amended: the same for every k other than the primary owner's own
\* address, whose signature is accepted whatever its session-key record says.
C10_RevokedSessionKeyStaysBlocked ==
    [][\A k \in KeyAddrs \ {owner} :
          /\ RevokedBy(k) => Blocked(k)'
          /\ (Blocked(k) /\ ~Blocked(k)') => CreatedBy(k)]_vars

\* a revoked key, inside its validity period, signing for its allowed target
C10_Witness ==
    /\ Validated /\ SignedBy(accLast.userOp) = Bot
    /\ Session(Bot).key = Bot /\ ~Session(Bot).active
    /\ now <= Session(Bot).validUntil
    /\ accLast.userOp.callData.outer = "execute"
    /\ InList(Session(Bot).allowedTargets, accLast.userOp.callData.target)
    /\ accLast.err = "SIG_VALIDATION_FAILED"

\* the three key-management operations
KeyManagement == {"createSessionKey", "createPhantomSessionKey", "revokeSessionKey"}

\* C11: createSessionKey, createPhantomSessionKey and revokeSessionKey called
\* by anyone but the primary owner fail NotOwner and change neither a
\* session-key record nor activeSessionKeys; the records and the list change
\* only in a key-management call made by the owner.
C11_OnlyOwnerManagesKeys ==
    [][/\ (accLast'.op \in KeyManagement /\ accLast'.sender # owner) =>
             /\ accLast'.err = "NotOwner"
             /\ UNCHANGED <<sessionKeys, activeSessionKeys>>
       /\ (sessionKeys' # sessionKeys \/ activeSessionKeys' # activeSessionKeys) =>
             /\ accLast'.op \in KeyManagement
             /\ accLast'.sender = owner]_vars

\* a stranger's attempt to revoke an active key was refused
C11_Witness ==
    /\ accLast.op = "revokeSessionKey" /\ accLast.sender = Mallory
    /\ accLast.err = "NotOwner"
    /\ Session(accLast.key).active

\* the owner's createPhantomSessionKey(k, duration) in this step
ScopedBy(k) ==
    /\ accLast'.op = "createPhantomSessionKey" /\ accLast'.key = k
    /\ accLast'.sender = owner

\* an operation signed by k was accepted after the expiry of k's record
AcceptedAfterExpiry(k) ==
    /\ Validated /\ SignedBy(accLast.userOp) = k
    /\ Session(k).key = k /\ now > Session(k).validUntil
    /\ accLast.err = "ok"

\* C12 as stated: the owner's createPhantomSessionKey(k, duration) at time t
\* always stores, in place of any earlier record of k, an active key for
\* exactly the ledger and exactly {executeStrategy, submitStrategy} that
\* expires at t + duration; no operation signed by k is accepted after the
\* expiry its record holds.
C12_ScopedKey ==
    [][\A k \in KeyAddrs :
          /\ ScopedBy(k) =>
                /\ accLast'.err = "ok"
                /\ sessionKeys'[k] = PhantomSessionKey(k, accLast'.arg)
          /\ ~AcceptedAfterExpiry(k)']_vars

\* C12 as amended: the same when t + duration fits a uint256, and the bound on
\* what k authorizes for every k other than the primary owner's own address.
C12_ScopedKeyInRange ==
    [][/\ \A k \in KeyAddrs :
             (ScopedBy(k) /\ ~Overflows(now, accLast'.arg)) =>
                /\ accLast'.err = "ok"
                /\ sessionKeys'[k] = PhantomSessionKey(k, accLast'.arg)
       /\ \A k \in KeyAddrs \ {owner} : ~AcceptedAfterExpiry(k)']_vars

\* a scoped key created twice with duration 0, refused one hour after its expiry
C12_Witness ==
    /\ Validated /\ SignedBy(accLast.userOp) = Bot
    /\ Session(Bot) = [PhantomSessionKey(Bot, 0) EXCEPT !.validUntil = now - 1]
    /\ Len(activeSessionKeys) = 2 /\ activeSessionKeys[1] = Bot /\ activeSessionKeys[2] = Bot
    /\ accLast.userOp.callData.target = PhantomVaultAddr
    /\ accLast.err = "SIG_VALIDATION_FAILED"

\* --------------------------------------------------- fee sponsor claims
\* this step is a sponsorship validation of pmLast'.userOp
Sponsoring == pmLast'.op = "validatePaymasterUserOp"

TargetOk(userOp) == _getTarget(userOp.callData) = phantomVault
SelectorOk(userOp) == _getSelector(userOp.callData) \in whitelistedSelectors
CosignOk(userOp) ==
    userOp.paymasterData.kind = "data" /\ Cosigned(userOp) = verifyingSigner
\* a 65-byte signature ecrecover accepts
WellSigned(userOp) ==
    userOp.paymasterData.kind = "data" /\ userOp.paymasterData.signature.kind = "sig"
\* the sender's sponsored count in the day window the current time falls in
WindowCount(u) == IF now > dailyResetTime[u] + Day THEN 0 ELSE sponsoredTxCount[u]
QuotaOk(userOp) == WindowCount(userOp.sender) < maxDailySponsored

\* C13: the sponsor accepts only when the decoded target is the configured
\* ledger, the decoded selector is whitelisted, the co-signature recovers to
\* verifyingSigner and the sender's count for the current day window is below
\* maxDailySponsored; with exactly one of the four failing it rejects with
\* InvalidTarget, SelectorNotWhitelisted, InvalidSignature, DailyLimitExceeded.
C13_AcceptsOnlyAllFour ==
    [][Sponsoring =>
          LET op == pmLast'.userOp
              T == TargetOk(op)
              S == SelectorOk(op)
              G == CosignOk(op)
              Q == QuotaOk(op)
          IN  /\ pmLast'.err = "ok" => (T /\ S /\ G /\ Q)
              /\ (~T /\ S /\ G /\ Q) => pmLast'.err = "InvalidTarget"
              /\ (T /\ ~S /\ G /\ Q) => pmLast'.err = "SelectorNotWhitelisted"
              /\ (T /\ S /\ ~G /\ Q /\ WellSigned(op)) => pmLast'.err = "InvalidSignature"
              /\ (T /\ S /\ G /\ ~Q) => pmLast'.err = "DailyLimitExceeded"]_vars

\* the whitelist the sponsor is deployed with
DefaultWhitelist == {"createPortfolio", "updatePortfolio", "executeStrategy", "submitStrategy"}

\* C14: for a wrapped single call execute(target, value, data) the target the
\* sponsor compares is the call's target argument and the selector it looks up
\* is the first 4 bytes of data; so a wrapped call of a default-whitelisted
\* operation to the ledger, co-signed and within quota, is accepted.
C14_DecodesWrappedCall ==
    [][(Sponsoring /\ pmLast'.userOp.callData.outer = "execute") =>
          LET op == pmLast'.userOp IN
          /\ _getTarget(op.callData) = op.callData.target
          /\ _getSelector(op.callData) = op.callData.inner
          /\ (/\ op.callData.target = phantomVault
              /\ op.callData.inner \in DefaultWhitelist \cap whitelistedSelectors
              /\ CosignOk(op) /\ QuotaOk(op)) => pmLast'.err = "ok"]_vars

\* C15: sponsoredTxCount[user] <= maxDailySponsored for every user, whatever
\* cap the administrator configures.
C15_CountWithinCap == \A u \in Senders : sponsoredTxCount[u] <= maxDailySponsored

\* C16: a rejecting validation changes no sponsoredTxCount and no
\* dailyResetTime; an accepting one sets the sender's count to 1 on a window
\* reset and adds exactly one to it otherwise, and changes no other user's entry.
C16_CountsMoveOnlyOnAccept ==
    [][Sponsoring =>
          LET u == pmLast'.sender IN
          /\ pmLast'.err # "ok" => UNCHANGED <<sponsoredTxCount, dailyResetTime>>
          /\ pmLast'.err = "ok" =>
                /\ sponsoredTxCount'[u] =
                      IF now > dailyResetTime[u] + Day THEN 1 ELSE sponsoredTxCount[u] + 1
                /\ \A v \in Senders \ {u} :
                      /\ sponsoredTxCount'[v] = sponsoredTxCount[v]
                      /\ dailyResetTime'[v] = dailyResetTime[v]]_vars

\* a sender refused at the cap while the other sender's count stands at 2
C16_Witness ==
    /\ pmLast.op = "validatePaymasterUserOp" /\ pmLast.err = "DailyLimitExceeded"
    /\ sponsoredTxCount[pmLast.sender] = 1
    /\ \E v \in Senders \ {pmLast.sender} : sponsoredTxCount[v] = 2

\* ----------------------------------------------------- portfolio claims
\* the ledger's state apart from the call log
LedgerState == <<now, paused, trustedIApp, minRebalanceInterval, portfolios, strategies,
                 riskHistory, totalPortfolios, totalStrategiesExecuted, rebalanced>>

\* what createPortfolio(dataRef, autoRebalance, threshold) by o must store
Created(o, dataRef, autoRebalance, threshold) ==
    [owner |-> o, protectedDataId |-> dataRef, lastAnalysis |-> 0, riskScore |-> 0,
     autoRebalance |-> autoRebalance, rebalanceThreshold |-> threshold, createdAt |-> now]

\* the outcome of the createPortfolio call of this step is as C17 says
CreateAsSpecified ==
    IF last'.protectedDataId = ZeroData \/ last'.rebalanceThreshold > 5000
    THEN /\ last'.err = "InvalidParameters"
         /\ UNCHANGED LedgerState
    ELSE /\ last'.err = "ok"
         /\ portfolios'[last'.sender] =
                Created(last'.sender, last'.protectedDataId, last'.autoRebalance,
                        last'.rebalanceThreshold)

\* C17 as stated: createPortfolio fails InvalidParameters, changing nothing,
\* for a zero dataRef or a threshold above 5000, and otherwise succeeds and
\* stores exactly the given fields with createdAt = now, lastAnalysis = 0 and
\* riskScore = 0 in place of any earlier portfolio of the caller.
C17_CreateStoresFields ==
    [][last'.op = "createPortfolio" => CreateAsSpecified]_vars

\* C17 as amended: the same while the ledger is not paused.
C17_CreateStoresFieldsUnpaused ==
    [][(last'.op = "createPortfolio" /\ ~paused) => CreateAsSpecified]_vars

\* a portfolio with threshold 5000 in place of one that carried a risk score
C17_Witness ==
    /\ last.op = "createPortfolio" /\ last.err = "ok"
    /\ last.rebalanceThreshold = 5000
    /\ totalPortfolios = 2
    /\ Len(riskHistory[last.sender]) > 0
    /\ portfolios[last.sender].riskScore = 0

\* C18: every existing portfolio has rebalanceThreshold <= 5000.
C18_ThresholdWithinLimit ==
    \A u \in Users :
        portfolios[u].owner # ZeroAddr => portfolios[u].rebalanceThreshold <= 5000

\* the outcome of the updatePortfolio call of this step is as C19 says
UpdateAsSpecified ==
    LET o == last'.sender IN
    IF portfolios[o].owner = ZeroAddr
    THEN /\ last'.err = "PortfolioNotFound"
         /\ UNCHANGED LedgerState
    ELSE /\ last'.err = "ok"
         /\ portfolios'[o] =
                [portfolios[o] EXCEPT
                    !.protectedDataId = IF last'.protectedDataId = ZeroData
                                        THEN @ ELSE last'.protectedDataId,
                    !.autoRebalance = last'.autoRebalance,
                    !.rebalanceThreshold = last'.rebalanceThreshold]
         /\ \A u \in Users \ {o} : portfolios'[u] = portfolios[u]
         /\ UNCHANGED riskHistory

\* C19 as stated: updatePortfolio fails PortfolioNotFound, changing nothing,
\* for a caller without a portfolio; otherwise a zero newDataRef keeps the data
\* reference and a non-zero one replaces it, autoRebalance and threshold are
\* set, and the other fields, the risk history and the other owners'
\* portfolios stay as they are.
C19_UpdateFrame ==
    [][last'.op = "updatePortfolio" => UpdateAsSpecified]_vars

\* C19 as amended: the same while the ledger is not paused.
C19_UpdateFrameUnpaused ==
    [][(last'.op = "updatePortfolio" /\ ~paused) => UpdateAsSpecified]_vars

\* an analysed portfolio updated with a zero newDataRef next to another owner's
C19_Witness ==
    /\ last.op = "updatePortfolio" /\ last.err = "ok"
    /\ last.protectedDataId = ZeroData
    /\ portfolios[last.sender].protectedDataId = "d1"
    /\ portfolios[last.sender].riskScore = 70
    /\ \E u \in Users \ {last.sender} : portfolios[u].owner = u

\* C20: for every owner with a non-empty risk history the cached riskScore is
\* the portfolioScore of the latest entry, and lastAnalysis is the time that
\* entry was accepted (it moves to the current time when an entry is appended
\* and never otherwise).
C20_CacheMirrorsHistory ==
    [][\A u \in Users :
          Len(riskHistory'[u]) > 0 =>
             /\ portfolios'[u].riskScore =
                   riskHistory'[u][Len(riskHistory'[u])].portfolioScore
             /\ portfolios'[u].lastAnalysis =
                   IF Len(riskHistory'[u]) > Len(riskHistory[u])
                   THEN now ELSE portfolios[u].lastAnalysis]_vars

\* ------------------------------------------------ automatic path claims
\* the attestation is a signature of the trusted attester over (owner, fingerprint, targets)
Attested(user, strategy, signature) ==
    /\ signature.kind = "sig"
    /\ signature.signer = trustedIApp
    /\ signature.msg = StrategyMsg(user, strategy)

\* C21: triggerAutoRebalance fails with the first that applies of
\* UnauthorizedCaller (autoRebalance false), InvalidParameters (deviation below
\* the threshold), RebalanceTooFrequent (now < lastAnalysis +
\* minRebalanceInterval), InvalidTEESignature (the attestation does not recover
\* to the trusted attester); otherwise it stores the strategy with executed =
\* true and adds one to the execution counter in the same step.
C21_TriggerChecksInOrder ==
    [][last'.op = "triggerAutoRebalance" =>
          LET u == last'.user
              st == last'.strategy
          IN  /\ last'.err =
                    CASE ~portfolios[u].autoRebalance -> "UnauthorizedCaller"
                      [] last'.deviation < portfolios[u].rebalanceThreshold -> "InvalidParameters"
                      [] now < portfolios[u].lastAnalysis + minRebalanceInterval ->
                            "RebalanceTooFrequent"
                      [] ~Attested(u, st, last'.teeSignature) -> "InvalidTEESignature"
                      [] OTHER -> "ok"
              /\ last'.err = "ok" =>
                    /\ strategies'[st.strategyHash] = [st EXCEPT !.executed = TRUE]
                    /\ totalStrategiesExecuted' = totalStrategiesExecuted + 1]_vars

\* the records whose executed flag is set
ExecutedRecords == {f \in DOMAIN strategies : strategies[f].executed}

\* C22: totalStrategiesExecuted equals the number of strategy records whose
\* executed flag is true, and it never decreases.
C22_CounterCountsExecuted ==
    [][/\ totalStrategiesExecuted' = Cardinality(ExecutedRecords')
       /\ totalStrategiesExecuted' >= totalStrategiesExecuted]_vars

\* C23: a successful executeStrategy(f) sets f's executed flag, adds one to the
\* execution counter and changes no other strategy record (another owner's
\* record for the same assets, allocations and time has another fingerprint),
\* no portfolio and no risk history.
C23_ExecuteTouchesOnlyItsRecord ==
    [][(last'.op = "executeStrategy" /\ last'.err = "ok") =>
          /\ strategies' = [strategies EXCEPT ![last'.h].executed = TRUE]
          /\ ~strategies[last'.h].executed
          /\ totalStrategiesExecuted' = totalStrategiesExecuted + 1
          /\ UNCHANGED <<portfolios, riskHistory>>
          /\ \A g \in DOMAIN strategies \ {last'.h} :
                (/\ strategies[g].targetAssets = strategies[last'.h].targetAssets
                 /\ strategies[g].allocations = strategies[last'.h].allocations)
                => (g # last'.h /\ strategies'[g] = strategies[g])]_vars

\* one owner's strategy executed while the other owner's, submitted in the
\* same block for the same assets and allocations, stays pending
C23_Witness ==
    /\ last.op = "executeStrategy" /\ last.err = "ok"
    /\ \E g \in DOMAIN strategies \ {last.h} :
          /\ FingerprintOwner(g) # FingerprintOwner(last.h)
          /\ g[4] = last.h[4]
          /\ strategies[g].targetAssets = strategies[last.h].targetAssets
          /\ strategies[g].allocations = strategies[last.h].allocations
          /\ ~strategies[g].executed
          /\ strategies[last.h].executed

\* --------------------------------------------------------- factory claims
\* C24: createAccount(owner, salt) returns getAddress(owner, salt); the first
\* call deploys an initialized agent whose owner is `owner`; a later call
\* deploys nothing and leaves totalAccounts, ownerToAccount and the agents
\* unchanged; getAddress depends on nothing but (owner, salt), and distinct
\* pairs give distinct addresses.
C24_CreateAccountIdempotent ==
    [][facLast'.op = "createAccount" =>
          LET o == facLast'.owner
              addr == getAddress(o, facLast'.salt)
          IN  /\ facLast'.result = addr
              /\ IF addr \in DOMAIN accounts
                 THEN /\ ~facLast'.deployed
                      /\ UNCHANGED <<accounts, ownerToAccount, totalAccounts>>
                 ELSE /\ facLast'.deployed
                      /\ DOMAIN accounts' = DOMAIN accounts \cup {addr}
                      /\ accounts'[addr] = [owner |-> o, initialized |-> "initialized"]
                      /\ \A a \in DOMAIN accounts : accounts'[a] = accounts[a]
                      /\ totalAccounts' = totalAccounts + 1
              /\ \A o2 \in Users, s2 \in Salts :
                    (getAddress(o2, s2) = addr) <=> (o2 = o /\ s2 = facLast'.salt)]_vars

\* a repeated createAccount, by someone else, after another owner's agent
\* was deployed under the same salt
C24_Witness ==
    /\ facLast.op = "createAccount" /\ ~facLast.deployed
    /\ facLast.sender = Mallory
    /\ totalAccounts = 2
    /\ \E o \in Users \ {facLast.owner} : getAddress(o, facLast.salt) \in DOMAIN accounts
    /\ accounts[facLast.result].owner = facLast.owner

\* the agents deployed for an owner
AgentsOf(o) == {a \in DOMAIN accounts : accounts[a].owner = o}

\* C25: the factory deploys at most one agent per owner, and
\* ownerToAccount[owner], once set, never changes, whatever the createAccount
\* calls, salts and callers.
C25_OneAccountPerOwner ==
    [][\A o \in Users :
          /\ Cardinality(AgentsOf(o)') <= 1
          /\ accountExists(o) => ownerToAccount'[o] = ownerToAccount[o]]_vars

\* --------------------------------------------------- administration claims
LedgerAdminOps == {"setTrustedIApp", "setTrustedWorkerpool", "setFees",
                   "setMinRebalanceInterval", "pause", "unpause", "rescueTokens"}

SponsorAdminOps == {"setVerifyingSigner", "setPhantomVault", "setMaxDailySponsored",
                    "whitelistSelector"}

LedgerConfig == <<trustedIApp, trustedWorkerpool, executionFeeBps, feeRecipient,
                  minRebalanceInterval, paused, strayTokens>>

SponsorConfig == <<verifyingSigner, phantomVault, maxDailySponsored, whitelistedSelectors>>

\* C26: every administrative operation of the ledger and of the fee sponsor
\* fails when its caller is not the administrator and then leaves the
\* configuration unchanged; the attester key, the pause flag, the daily cap
\* and the whitelist change only in a call made by the administrator.
C26_AdminOnly ==
    [][/\ (last'.op \in LedgerAdminOps /\ last'.sender # Admin) =>
              (last'.err = "OwnableUnauthorizedAccount" /\ UNCHANGED LedgerConfig)
       /\ (pmLast'.op \in SponsorAdminOps /\ pmLast'.sender # Admin) =>
              (pmLast'.err = "OwnableUnauthorizedAccount" /\ UNCHANGED SponsorConfig)
       /\ trustedIApp' # trustedIApp =>
              (last'.op = "setTrustedIApp" /\ last'.sender = Admin /\ last'.err = "ok")
       /\ paused' # paused =>
              (last'.op \in {"pause", "unpause"} /\ last'.sender = Admin /\ last'.err = "ok")
       /\ verifyingSigner' # verifyingSigner =>
              (pmLast'.op = "setVerifyingSigner" /\ pmLast'.sender = Admin)
       /\ maxDailySponsored' # maxDailySponsored =>
              (pmLast'.op = "setMaxDailySponsored" /\ pmLast'.sender = Admin)
       /\ whitelistedSelectors' # whitelistedSelectors =>
              (pmLast'.op = "whitelistSelector" /\ pmLast'.sender = Admin)]_vars

\* someone else's setTrustedIApp and whitelistSelector refused, the attester
\* and the whitelist as they were, after the administrator changed the fees
\* and the cap and paused the ledger
C26_Witness ==
    /\ last.op = "setTrustedIApp" /\ last.sender = Mallory
    /\ last.err = "OwnableUnauthorizedAccount"
    /\ pmLast.op = "whitelistSelector" /\ pmLast.sender = Mallory
    /\ pmLast.err = "OwnableUnauthorizedAccount"
    /\ trustedIApp = TEE
    /\ executionFeeBps = MaxFeeBps
    /\ "executeStrategy" \in whitelistedSelectors
    /\ maxDailySponsored # DefaultMaxDaily
    /\ paused

\* the operations guarded by whenNotPaused
PausableOps == {"createPortfolio", "updatePortfolio", "submitRiskAnalysis",
                "submitStrategy", "executeStrategy", "triggerAutoRebalance"}

\* everything the ledger stores but the pause flag
LedgerData == <<trustedIApp, minRebalanceInterval, portfolios, strategies, riskHistory,
                totalPortfolios, totalStrategiesExecuted, rebalanced>>

\* C27: while the ledger is paused, createPortfolio, updatePortfolio,
\* submitRiskAnalysis, submitStrategy, executeStrategy and triggerAutoRebalance
\* all fail and change nothing; pausing and unpausing touch nothing but the
\* flag, so after unpause the same calls are never refused for the pause and
\* act on the state they would have found before; only the administrator's
\* pause and unpause move the flag.
C27_PauseBlocksEverything ==
    [][/\ (paused /\ last'.op \in PausableOps) =>
              (last'.err = "EnforcedPause" /\ UNCHANGED <<LedgerData, paused>>)
       /\ (~paused /\ last'.op \in PausableOps) => last'.err # "EnforcedPause"
       /\ last'.op \in {"pause", "unpause"} => UNCHANGED LedgerData
       /\ paused' # paused =>
              /\ last'.op = (IF paused THEN "unpause" ELSE "pause")
              /\ last'.sender = Admin]_vars

\* a pending, unexpired strategy whose execution is refused because the
\* ledger is paused
C27_Witness ==
    /\ paused
    /\ last.op = "executeStrategy" /\ last.err = "EnforcedPause"
    /\ last.h \in DOMAIN strategies
    /\ ~strategies[last.h].executed
    /\ now <= strategies[last.h].validUntil

\* ---------------------------------------------------- initialization claims
\* C28: initialize(owner) takes effect at most once per agent: on an agent
\* already initialized it fails and the owner stays; the implementation
\* template can never be initialized; once the agent is initialized no
\* session-key, validation or execution operation changes the owner.
C28_InitializeOnce ==
    [][/\ (accLast'.op = "initialize" /\ initialized = "fresh") =>
              (accLast'.err = "ok" /\ owner' = accLast'.key /\ initialized' = "initialized")
       /\ (accLast'.op = "initialize" /\ initialized # "fresh") =>
              (accLast'.err = "InvalidInitialization" /\ UNCHANGED <<owner, initialized>>)
       /\ initialized = "disabled" => (initialized' = "disabled" /\ owner' = ZeroAddr)
       /\ initialized = "initialized" => UNCHANGED <<owner, initialized>>]_vars

\* a second initialize, for another owner, refused on an agent whose owner
\* has delegated a key
C28_Witness ==
    /\ accLast.op = "initialize" /\ accLast.err = "InvalidInitialization"
    /\ initialized = "initialized"
    /\ owner = AccountOwner /\ accLast.key = Mallory
    /\ Session(Bot).active

\* ------------------------------------------------------------ quota claims
\* C29: a validation that reaches the daily limit at a time strictly after
\* dailyResetTime[user] + 1 day (the user's first sponsored operation
\* included) is accepted and restarts the window: dailyResetTime[user] = now
\* and sponsoredTxCount[user] = 1; at any time up to dailyResetTime[user] +
\* 1 day the window stays and the count grows by one per accepted operation.
C29_WindowRestart ==
    [][(Sponsoring /\ pmLast'.err \in {"ok", "DailyLimitExceeded"}) =>
          LET u == pmLast'.sender IN
          IF now > dailyResetTime[u] + Day
          THEN /\ pmLast'.err = "ok"
               /\ dailyResetTime'[u] = now
               /\ sponsoredTxCount'[u] = 1
          ELSE /\ dailyResetTime'[u] = dailyResetTime[u]
               /\ sponsoredTxCount'[u] =
                     IF pmLast'.err = "ok" THEN sponsoredTxCount[u] + 1
                     ELSE sponsoredTxCount[u]]_vars

\* an operation accepted exactly one day after the window opened, counted as
\* the window's second
C29_Witness ==
    /\ pmLast.op = "validatePaymasterUserOp" /\ pmLast.err = "ok"
    /\ now = dailyResetTime[pmLast.sender] + Day
    /\ sponsoredTxCount[pmLast.sender] = 2

\* the operations of u accepted in the 24 hours that start at time t
AcceptedWithin(u, t) ==
    {j \in 1..Len(sponsoredAt[u]) : sponsoredAt[u][j] >= t /\ sponsoredAt[u][j] < t + Day}

\* C30: with the cap held constant at M, no sender has more than M operations
\* accepted for sponsorship inside any interval of 24 hours.
C30_RollingQuota ==
    \A u \in Senders : \A i \in 1..Len(sponsoredAt[u]) :
        Cardinality(AcceptedWithin(u, sponsoredAt[u][i])) <= maxDailySponsored

\* ------------------------------------------------------------- hook claims
\* C31: the post-execution hook changes no sponsor state: whether the
\* sponsored operation succeeded or reverted, sponsoredTxCount and
\* dailyResetTime (and the configuration) are after the hook what they were
\* before it, so an operation that failed still counts against the quota.
C31_PostOpChangesNothing ==
    [][pmLast'.op = "postOp" =>
          /\ UNCHANGED <<sponsoredTxCount, dailyResetTime>>
          /\ UNCHANGED <<verifyingSigner, phantomVault, maxDailySponsored,
                         whitelistedSelectors>>
          /\ sponsoredTxCount'[pmLast'.sender] >= 1
          /\ pmLast'.GasSponsored = (pmLast'.mode = "opSucceeded")]_vars

\* the hook has run for the second operation of a sender's window, which
\* reverted, and both operations are still counted
C31_Witness ==
    /\ pmLast.op = "postOp" /\ pmLast.mode = "opReverted"
    /\ sponsoredTxCount[pmLast.sender] = 2
    /\ Len(sponsoredAt[pmLast.sender]) = 2

\* ------------------------------------------------------- rebalance claims
\* the call log shows a successful triggerAutoRebalance for owner u; the
\* clock resets the log, so the call was made at the current time
TriggeredNow(u) ==
    last.op = "triggerAutoRebalance" /\ last.err = "ok" /\ last.user = u

\* C32: for every owner, two successful triggerAutoRebalance executions are
\* at least minRebalanceInterval apart (the interval being left alone): a
\* successful one that directly follows another for the same owner comes no
\* earlier than the interval after it.
C32_MinimumTimeBetweenRebalances ==
    [][\A u \in Users :
          (/\ TriggeredNow(u)
           /\ TriggeredNow(u)'
           /\ totalStrategiesExecuted' = totalStrategiesExecuted + 1
           /\ minRebalanceInterval' = minRebalanceInterval)
          => now' >= now + minRebalanceInterval]_vars

\* C33: in every reachable state every stored strategy record has as many
\* allocations as target assets, whether submitStrategy or
\* triggerAutoRebalance stored it.
C33_ArraysSameLength ==
    \A f \in DOMAIN strategies :
        Len(strategies[f].targetAssets) = Len(strategies[f].allocations)

\* ------------------------------------------------------ submission claims
\* the outcome of the submitStrategy call of this step is as C34 says
SubmitAsSpecified ==
    LET o == last'.sender
        vp == last'.validityPeriod
    IN  /\ last'.err =
              CASE Len(last'.targetAssets) # Len(last'.allocations) -> "InvalidParameters"
                [] vp > 24 -> "InvalidParameters"
                [] portfolios[o].owner = ZeroAddr -> "PortfolioNotFound"
                [] OTHER -> "ok"
        /\ last'.err # "ok" => UNCHANGED strategies
        /\ last'.err = "ok" =>
              /\ last'.h = Fingerprint(o, last'.targetAssets, last'.allocations, now)
              /\ strategies' = Store(last'.h,
                    [strategyHash |-> last'.h, targetAssets |-> last'.targetAssets,
                     allocations |-> last'.allocations, teeSignature |-> EmptySig,
                     validUntil |-> now + vp, executed |-> FALSE])
              /\ strategies'[last'.h].validUntil <= now + 24

\* C34 as stated: submitStrategy fails InvalidParameters when the arrays
\* differ in length or validityPeriod > 24 hours (24 hours allowed), fails
\* PortfolioNotFound when the caller has no portfolio, stores nothing when it
\* fails, and otherwise stores a record with executed = false and
\* validUntil = now + validityPeriod, at most 24 hours ahead.
C34_SubmitChecks ==
    [][last'.op = "submitStrategy" => SubmitAsSpecified]_vars

\* C34 amended: that holds while the ledger is not paused; while it is
\* paused every submitStrategy fails EnforcedPause and stores nothing.
C34_SubmitChecksUnpaused ==
    [][last'.op = "submitStrategy" =>
          IF paused THEN last'.err = "EnforcedPause" /\ UNCHANGED strategies
          ELSE SubmitAsSpecified]_vars

\* a strategy submitted for exactly 24 hours, stored pending with its
\* deadline 24 hours ahead
C34_Witness ==
    /\ last.op = "submitStrategy" /\ last.err = "ok"
    /\ last.validityPeriod = MaxValidity
    /\ strategies[last.h].validUntil = now + MaxValidity
    /\ ~strategies[last.h].executed

C36_MarkedBeforeDelegating ==
    [][/\ (running = NoCall /\ running' # NoCall) =>
              /\ strategies'[running'.h].executed
              /\ totalStrategiesExecuted' = totalStrategiesExecuted + 1
              /\ rebalanced'[running'.h] = Rebalanced(running'.h) + 1
       /\ (running # NoCall /\ running' # NoCall) =>
              /\ last'.op \in {"executeStrategy", "triggerAutoRebalance"}
              /\ last'.err = "ReentrancyGuardReentrantCall"
              /\ UNCHANGED <<strategies, totalStrategiesExecuted, rebalanced>>
       /\ (running # NoCall /\ running' = NoCall) =>
              UNCHANGED <<strategies, totalStrategiesExecuted, rebalanced>>
       /\ (/\ running = NoCall
           /\ last.op = "executeStrategy" /\ last.err = "ok"
           /\ last'.op = "executeStrategy" /\ last'.h = last.h) =>
              (last'.err = "StrategyAlreadyExecuted" /\ running' = NoCall)]_vars

\* the rebalance action of a triggered strategy called triggerAutoRebalance
\* back for the same fingerprint and was turned away: counted once
C36_Witness ==
    /\ running # NoCall /\ running.op = "triggerAutoRebalance"
    /\ last.op = "triggerAutoRebalance" /\ last.err = "ReentrancyGuardReentrantCall"
    /\ last.h = running.h
    /\ Rebalanced(running.h) = 1
    /\ totalStrategiesExecuted = 1

\* -------------------------------------------------------- attester claims
\* the attestation of the call of this step is a signature made with the
\* trusted attester key over what the call is about
GenuineAttestation ==
    /\ last'.teeSignature.kind = "sig"
    /\ last'.teeSignature.signer = trustedIApp
    /\ last'.teeSignature.msg =
          IF last'.op = "submitRiskAnalysis" THEN ReportMsg(last'.user, last'.report)
          ELSE StrategyMsg(last'.user, last'.strategy)

\* C37: submitRiskAnalysis and triggerAutoRebalance never accept an
\* attestation that is not a genuine signature of the trusted attester,
\* whatever the attester key is set to, the zero address included: 65 bytes
\* for which recovery fails are rejected with InvalidTEESignature.
C37_OnlyGenuineAttestations ==
    [][last'.op \in {"submitRiskAnalysis", "triggerAutoRebalance"} =>
          /\ last'.err = "ok" => GenuineAttestation
          /\ (last'.teeSignature.kind = "bad" /\ ~paused
                /\ last'.err \notin {"UnauthorizedCaller", "InvalidParameters",
                                     "RebalanceTooFrequent"})
                => last'.err = "InvalidTEESignature"]_vars

\* ---------------------------------------------------------- caller claims
\* what executeStrategy(f) does in the current state, worked out from the
\* state and f alone
ExecuteOutcome(f) ==
    LET err == CASE paused -> "EnforcedPause"
                 [] ~Known(f) -> "InvalidParameters"
                 [] strategies[f].executed -> "StrategyAlreadyExecuted"
                 [] now > strategies[f].validUntil -> "StrategyExpired"
                 [] OTHER -> "ok"
    IN  [err |-> err,
         strategies |-> IF err = "ok" THEN [strategies EXCEPT ![f].executed = TRUE]
                        ELSE strategies,
         total |-> totalStrategiesExecuted + IF err = "ok" THEN 1 ELSE 0]

\* C38: the outcome of executeStrategy(f) does not depend on the caller: from
\* one state every caller gets the same error or success and leaves the same
\* ledger state, the one fixed by the state and f; so an address that is
\* neither f's submitter nor the submitter's agent executes f while it is
\* valid.
C38_CallerIndependent ==
    [][last'.op = "executeStrategy" =>
          /\ last'.err = ExecuteOutcome(last'.h).err
          /\ strategies' = ExecuteOutcome(last'.h).strategies
          /\ totalStrategiesExecuted' = ExecuteOutcome(last'.h).total
          /\ UNCHANGED <<now, paused, trustedIApp, minRebalanceInterval, portfolios,
                         riskHistory, totalPortfolios>>]_vars

\* a stranger has executed alice's strategy
C38_Witness ==
    /\ last.op = "executeStrategy" /\ last.err = "ok"
    /\ last.sender = Mallory
    /\ FingerprintOwner(last.h) = "alice"
    /\ strategies[last.h].executed

\* -------------------------------------------------------- execution claims
\* C39: the agent carries out a call only when execute is invoked by the
\* entry point or by its owner; invoked by anyone else, the holder of an
\* active session key included, it is rejected and makes no call, so a
\* session key acts only through a validated signature.
C39_ExecuteOnlyFromEntryPointOrOwner ==
    [][accLast'.op = "execute" =>
          /\ accLast'.sender \in {EntryPoint, owner} =>
                accLast'.err # "NotFromEntryPoint"
          /\ accLast'.sender \notin {EntryPoint, owner} =>
                /\ accLast'.err = "NotFromEntryPoint"
                /\ UNCHANGED <<owner, initialized, sessionKeys, activeSessionKeys>>
          /\ accLast'.err = "ok" => accLast'.sender \in {EntryPoint, owner}]_vars

\* the holder of an active, unexpired session key turned away by execute
C39_Witness ==
    /\ accLast.op = "execute" /\ accLast.err = "NotFromEntryPoint"
    /\ accLast.sender = Bot
    /\ isSessionKeyActive(Bot)

\* ----------------------------------------------------------- replay claims
\* the submitRiskAnalysis call of this step presents the trusted attester's
\* signature over (owner, report) for an owner who has a portfolio
AttestedReportSubmitted ==
    /\ last'.op = "submitRiskAnalysis"
    /\ last'.teeSignature = Sig(trustedIApp, ReportMsg(last'.user, last'.report))
    /\ portfolios[last'.user].owner # ZeroAddr

\* it is accepted, appended and stamped
ReportRecorded ==
    /\ last'.err = "ok"
    /\ riskHistory'[last'.user] = Append(riskHistory[last'.user], last'.report)
    /\ portfolios'[last'.user].lastAnalysis = now

\* the triggerAutoRebalance call of this step gets as far as the interval
\* check, less than minRebalanceInterval after the owner's last analysis
TriggeredTooSoon ==
    /\ last'.op = "triggerAutoRebalance"
    /\ portfolios[last'.user].autoRebalance
    /\ last'.deviation >= portfolios[last'.user].rebalanceThreshold
    /\ now < portfolios[last'.user].lastAnalysis + minRebalanceInterval

\* C40 as stated: while the attester key is the same and the owner has a
\* portfolio, the same (owner, report, attestation) is accepted every time,
\* from any caller; each acceptance appends a copy and sets lastAnalysis to
\* now, so triggerAutoRebalance fails RebalanceTooFrequent for the following
\* minRebalanceInterval.
C40_ReplayAccepted ==
    [][/\ AttestedReportSubmitted => ReportRecorded
       /\ TriggeredTooSoon => last'.err = "RebalanceTooFrequent"]_vars

\* C40 amended: that holds while the ledger is not paused; paused, both
\* calls fail EnforcedPause and nothing is recorded.
C40_ReplayAcceptedUnpaused ==
    [][/\ AttestedReportSubmitted =>
              IF paused THEN last'.err = "EnforcedPause" /\ UNCHANGED <<riskHistory, portfolios>>
              ELSE ReportRecorded
       /\ TriggeredTooSoon =>
              last'.err = (IF paused THEN "EnforcedPause" ELSE "RebalanceTooFrequent")]_vars

\* a stranger has submitted the report a second time, an hour after the
\* first; the copy is in the history and a trigger that was due is refused
C40_Witness ==
    /\ last.op = "triggerAutoRebalance" /\ last.err = "RebalanceTooFrequent"
    /\ riskHistory["alice"] = <<ReplayedReport, ReplayedReport>>
    /\ portfolios["alice"].lastAnalysis = now
    /\ now > StartTime

====
